---------------------------- MODULE Spec2Model ----------------------------
(***************************************************************************)
(* Block-range synchronisation engine of the seeder package:               *)
(*   utils/seeder.ts      loopThroughBlocks, bulkUpdateDbTransactions,     *)
(*                        fetchLastSyncBlock, saveLastSyncBlock            *)
(*   seedPods             the "pods" stream                                *)
(*   seedLogsOperatorShares  the "operator shares" stream                  *)
(*                                                                         *)
(* Two specifications share the variables:                                  *)
(*   SpecLoop  one call of loopThroughBlocks with an arbitrary callback    *)
(*   Spec      sync runs of the two streams against a chain and a store    *)
(***************************************************************************)
EXTENDS Integers, Sequences, FiniteSets, TLC

(***************************************************************************)
(* Bounds of the model                                                     *)
(***************************************************************************)
\* loopThroughBlocks is explored for every firstBlock, lastBlock in
\* 0..MaxBlock and every batch size in 0..MaxBatch (0 = argument omitted)
MaxBlock == 6
MaxBatch == 3
\* number of sync runs started, over both streams
MaxRuns == 2

(***************************************************************************)
(* Program constants                                                       *)
(***************************************************************************)
\* seeder.ts:10-13, NETWORK unset (mainnet)
baseBlock == 17000000
\* seeder.ts:27
DefaultBatchSize == 4999
\* seeder.ts:82
chunkSize == 1000

\* `undefined` for an optional bigint argument.  The code tests the argument
\* for truthiness, so 0n and undefined take the same branch.
Undefined == 0

(***************************************************************************)
(* loopThroughBlocks (seeder.ts:21-41)                                     *)
(***************************************************************************)
\* const batchSize = defaultBatchSize ? defaultBatchSize : 4999n
BatchSizeOf(defaultBatchSize) ==
    IF defaultBatchSize # Undefined THEN defaultBatchSize ELSE DefaultBatchSize

\* while (nextBlock < lastBlock)
LoopConditionInclusive(nextBlock, lastBlock) == nextBlock <= lastBlock
LoopCondition(nextBlock, lastBlock) == nextBlock < lastBlock

\* nextBlock = currentBlock + batchSize
\* if (nextBlock >= lastBlock) nextBlock = lastBlock
NextBlockUnclipped(currentBlock, batchSize, lastBlock) == currentBlock + batchSize
NextBlockOf(currentBlock, batchSize, lastBlock) ==
    IF currentBlock + batchSize >= lastBlock THEN lastBlock
    ELSE currentBlock + batchSize

\* currentBlock = nextBlock
CurrentBlockAfterStepBack(nextBlock) == nextBlock - 1
CurrentBlockAfter(nextBlock) == nextBlock

VARIABLES
    lpc,        \* position in loopThroughBlocks: idle, test, await, done, failed
    lfirst,     \* argument firstBlock
    llast,      \* argument lastBlock
    lbatch,     \* argument defaultBatchSize (Undefined when omitted)
    lcur,       \* local currentBlock
    lnext,      \* local nextBlock
    lcalls,     \* the (fromBlock, toBlock) pairs cb was invoked with, in order
    linflight,  \* number of cb invocations started and not yet settled
    lret        \* value returned by loopThroughBlocks (-1 before it returns)

loopVars == <<lpc, lfirst, llast, lbatch, lcur, lnext, lcalls, linflight, lret>>

\* The calls of the functions that are explored on their own
VARIABLES
    bulk,     \* a call of bulkUpdateDbTransactions: position and locals
    sync,     \* calls of saveLastSyncBlock / fetchLastSyncBlock and their results
    metrics,  \* the hourly snapshot table the historical routes read
    agg,      \* a call of a historical series function: position and locals
    cnt,      \* a call of doGetHistoricalCount: position and locals
    point,    \* a call of a point-in-time TVL function and what it returned
    total,    \* two series handed to the combining step, and its outcome
    fetch     \* a call of fetchWithTimeout: the request, the timer, the outcome

callVars == <<bulk, sync, metrics, agg, cnt, point, total, fetch>>

BulkIdle == [ pc |-> "idle", dbTransactions |-> << >>, i |-> 0, started |-> << >> ]
SyncIdle == [ op |-> << "none" >>, result |-> -1,
              last |-> [k \in {"lastSyncedBlock_pods",
                               "lastSyncedBlock_logs_operatorShares"} |-> -1] ]
AggIdle == [ pc |-> "idle" ]
CountIdle == [ pc |-> "idle" ]
PointIdle == [ pc |-> "idle" ]
TotalIdle == [ pc |-> "idle" ]
FetchIdle == [ pc |-> "idle" ]

ExtraIdle ==
    /\ cnt = CountIdle /\ point = PointIdle /\ total = TotalIdle
    /\ fetch = FetchIdle

CallsIdle ==
    /\ bulk = BulkIdle /\ sync = SyncIdle /\ metrics = {} /\ agg = AggIdle
    /\ ExtraIdle

\* everything outside the sync runs
restVars == <<loopVars, callVars>>

\* the calls explored: every small triple, and the call from the genesis
\* block with the default batch size over 10000 blocks
LoopInputs ==
    { <<f, l, b>> : f \in 0..MaxBlock, l \in 0..MaxBlock, b \in 0..MaxBatch }
        \cup { <<17000000, 17010000, 4999>> }

\* entry of loopThroughBlocks: lines 27-29
LoopInit ==
    \E in \in LoopInputs :
        /\ lfirst = in[1]
        /\ llast = in[2]
        /\ lbatch = in[3]
        /\ lcur = in[1]
        /\ lnext = in[1]
        /\ lpc = "test"
        /\ lcalls = << >>
        /\ linflight = 0
        /\ lret = -1

LoopIdle ==
    /\ lpc = "idle" /\ lfirst = 0 /\ llast = 0 /\ lbatch = 0 /\ lcur = 0
    /\ lnext = 0 /\ lcalls = << >> /\ linflight = 0 /\ lret = -1

\* One pass of lines 31-35 up to the await: the loop test succeeds, nextBlock
\* is computed and clipped, cb(currentBlock, nextBlock) is called and the
\* function suspends until cb settles.
LoopIterateNoAwait ==
    /\ lpc = "test"
    /\ LoopCondition(lnext, llast)
    /\ LET nb == NextBlockOf(lcur, BatchSizeOf(lbatch), llast) IN
        /\ lnext' = nb
        /\ lcalls' = Append(lcalls, <<lcur, nb>>)
        /\ lcur' = CurrentBlockAfter(nb)
    /\ linflight' = linflight + 1
    /\ UNCHANGED <<lpc, lfirst, llast, lbatch, lret>>

LoopIterate ==
    /\ lpc = "test"
    /\ LoopCondition(lnext, llast)
    /\ LET nb == NextBlockOf(lcur, BatchSizeOf(lbatch), llast) IN
        /\ lnext' = nb
        /\ lcalls' = Append(lcalls, <<lcur, nb>>)
    /\ linflight' = linflight + 1
    /\ lpc' = "await"
    /\ UNCHANGED <<lfirst, llast, lbatch, lcur, lret>>

\* cb's promise resolves: line 37, back to the loop test
LoopCbResolve ==
    /\ linflight > 0
    /\ linflight' = linflight - 1
    /\ IF lpc = "await"
         THEN lcur' = CurrentBlockAfter(lnext) /\ lpc' = "test"
         ELSE UNCHANGED <<lcur, lpc>>
    /\ UNCHANGED <<lfirst, llast, lbatch, lnext, lcalls, lret>>

\* cb's promise rejects: the await throws, loopThroughBlocks rejects
LoopCbReject ==
    /\ linflight > 0
    /\ linflight' = linflight - 1
    /\ IF lpc = "await" THEN lpc' = "failed" ELSE UNCHANGED lpc
    /\ UNCHANGED <<lfirst, llast, lbatch, lcur, lnext, lcalls, lret>>

\* the loop test fails: line 40, return lastBlock
LoopReturn ==
    /\ lpc = "test"
    /\ ~LoopCondition(lnext, llast)
    /\ lret' = llast
    /\ lpc' = "done"
    /\ UNCHANGED <<lfirst, llast, lbatch, lcur, lnext, lcalls, linflight>>


(***************************************************************************)
(* Strings.  An address is a sequence of one-character strings, so that    *)
(* String.prototype.toLowerCase is computed character by character.        *)
(***************************************************************************)
LowerChar(c) ==
    CASE c = "A" -> "a" [] c = "B" -> "b" [] c = "C" -> "c"
      [] c = "D" -> "d" [] c = "E" -> "e" [] c = "F" -> "f"
      [] OTHER -> c

ToLowerCase(s) == [i \in 1..Len(s) |-> LowerChar(s[i])]

\* String(log.args.name): the argument itself when it is a string, and
\* "undefined" when the log carries no such argument
UndefinedString == <<"u", "n", "d", "e", "f", "i", "n", "e", "d">>

ArgString(args, name) ==
    IF name \in DOMAIN args THEN args[name] ELSE UndefinedString

Range(s) == { s[i] : i \in 1..Len(s) }

Count(r, s) == Cardinality({ i \in 1..Len(s) : s[i] = r })

\* two tables hold the same rows, each the same number of times
SameRows(t1, t2) ==
    \A r \in Range(t1) \cup Range(t2) : Count(r, t1) = Count(r, t2)

(***************************************************************************)
(* The chain (viem client).  Logs are immutable; only the head moves.      *)
(***************************************************************************)
\* successive values of getBlockNumber()
Heads == << baseBlock + 2, baseBlock + 5003 >>

\* PodDeployed logs of the EigenPodManager
PodLogs == {
    [ blockNumber |-> baseBlock + 2,
      args |-> [ eigenPod |-> <<"0", "x", "A", "1">>,
                 podOwner |-> <<"0", "x", "B", "1">> ] ],
    [ blockNumber |-> baseBlock + 4999,
      args |-> [ eigenPod |-> <<"0", "x", "a", "2">>,
                 podOwner |-> <<"0", "x", "B", "1">> ] ],
    [ blockNumber |-> baseBlock + 5001,
      args |-> [ eigenPod |-> <<"0", "x", "C", "3">>,
                 podOwner |-> <<"0", "x", "d", "2">> ] ],
    \* a second pod deployed in the same block
    [ blockNumber |-> baseBlock + 5001,
      args |-> [ eigenPod |-> <<"0", "x", "E", "5">>,
                 podOwner |-> <<"0", "x", "d", "2">> ] ],
    \* a log that does not conform to the event's ABI: getLogs (not strict)
    \* returns it without a value for the argument it could not decode
    [ blockNumber |-> baseBlock + 5002,
      args |-> [ podOwner |-> <<"0", "x", "B", "1">> ] ] }

\* OperatorSharesIncreased / OperatorSharesDecreased logs of the
\* DelegationManager
ShareLogs == {
    [ eventName |-> "OperatorSharesIncreased",
      address |-> <<"0", "x", "D", "M">>,
      transactionHash |-> "h1", transactionIndex |-> 0, logIndex |-> 0,
      blockNumber |-> baseBlock + 1, blockHash |-> "b1",
      args |-> [ operator |-> <<"0", "x", "E", "1">>,
                 staker |-> <<"0", "x", "F", "1">>,
                 strategy |-> <<"0", "x", "5", "1">>, shares |-> 100 ] ],
    [ eventName |-> "OperatorSharesDecreased",
      address |-> <<"0", "x", "D", "M">>,
      transactionHash |-> "h2", transactionIndex |-> 3, logIndex |-> 7,
      blockNumber |-> baseBlock + 4999, blockHash |-> "b2",
      args |-> [ operator |-> <<"0", "x", "E", "1">>,
                 staker |-> <<"0", "x", "F", "1">>,
                 strategy |-> <<"0", "x", "5", "1">>, shares |-> 40 ] ],
    [ eventName |-> "OperatorSharesIncreased",
      address |-> <<"0", "x", "D", "M">>,
      transactionHash |-> "h3", transactionIndex |-> 1, logIndex |-> 2,
      blockNumber |-> baseBlock + 5001, blockHash |-> "b3",
      args |-> [ operator |-> <<"0", "x", "e", "2">>,
                 staker |-> <<"0", "x", "F", "1">>,
                 strategy |-> <<"0", "x", "5", "1">>, shares |-> 7 ] ] }

\* block.timestamp of getBlock({ blockNumber }), in seconds
BlockTimestamp(blockNumber) == 1000 + 12 * (blockNumber - baseBlock)

\* rows of evm_BlockData (number, timestamp); sparse
EvmBlockData == {
    [ number |-> baseBlock + 1, timestamp |-> 1012000 ],
    [ number |-> baseBlock + 5001, timestamp |-> 61012000 ] }

\* the logs of a set in block order
RECURSIVE OrderedLogs(_)
OrderedLogs(S) ==
    IF S = {} THEN << >>
    ELSE LET l == CHOOSE x \in S : \A y \in S : x.blockNumber <= y.blockNumber
         IN <<l>> \o OrderedLogs(S \ {l})

\* viemClient.getLogs({ ..., fromBlock, toBlock }): inclusive range, only
\* blocks that exist
GetLogs(logs, fromBlock, toBlock, head) ==
    OrderedLogs({ l \in logs : /\ fromBlock <= l.blockNumber
                               /\ l.blockNumber <= toBlock
                               /\ l.blockNumber <= head })

(***************************************************************************)
(* The store (prisma client)                                               *)
(***************************************************************************)
VARIABLES
    head,   \* index into Heads of the current chain head
    db      \* the tables: settings, pod, validatorRestake,
            \* eventLogs_OperatorSharesIncreased / Decreased

\* part_001:14 and part_002:13
blockSyncKey == "lastSyncedBlock_pods"
blockSyncKeyLogsShared == "lastSyncedBlock_pods"
blockSyncKeyLogs == "lastSyncedBlock_logs_operatorShares"
SettingsKeys == { blockSyncKey, blockSyncKeyLogs }

\* settings[key] when the table has no row for key
NoRow == -1

\* Number(blockNumber): exact for every block number below 2^53, which
\* covers every value of the model
NumberOf(blockNumber) == blockNumber

\* fetchLastSyncBlock (seeder.ts:96-106): a missing row and a falsy value
\* both give baseBlock
fetchLastSyncBlock(d, key) ==
    IF d.settings[key] # NoRow /\ d.settings[key] # 0
        THEN d.settings[key]
        ELSE baseBlock

\* settings.upsert({ where: { key }, update: { value }, create: { key, value } })
SettingsUpsert(d, key, value) ==
    [d EXCEPT !.settings[key] = value]

\* the unique key of the event-log tables
NaturalKey(row) == <<row.transactionHash, row.transactionIndex>>

\* createMany({ data, skipDuplicates: true }) on an event-log table: rows
\* whose key is already present are skipped
CreateManyPlain(table, data) == table \o data

RECURSIVE CreateManySkipDuplicates(_, _)
CreateManySkipDuplicates(table, data) ==
    IF data = << >> THEN table
    ELSE LET r == Head(data)
             t == IF \E i \in 1..Len(table) : NaturalKey(table[i]) = NaturalKey(r)
                    THEN table ELSE Append(table, r)
         IN CreateManySkipDuplicates(t, Tail(data))

\* pod.createMany({ data: podList, skipDuplicates: true }); Pod is unique on
\* address (the upsert's where clause)
PodCreateManyPlain(table, data) == table \o data

RECURSIVE PodCreateMany(_, _)
PodCreateMany(table, data) ==
    IF data = << >> THEN table
    ELSE LET r == Head(data)
             t == IF \E i \in 1..Len(table) : table[i].address = r.address
                    THEN table ELSE Append(table, r)
         IN PodCreateMany(t, Tail(data))

\* pod.upsert({ where: { address }, update: {...}, create: {...} })
\* (part_001:87-104)
PodUpsertAlwaysCreate(table, pod) == Append(table, pod)
PodUpsert(table, pod) ==
    IF \E i \in 1..Len(table) : table[i].address = pod.address
        THEN [i \in 1..Len(table) |->
                IF table[i].address = pod.address
                    THEN [table[i] EXCEPT !.owner = pod.owner,
                                          !.blockNumber = pod.blockNumber,
                                          !.updatedAtBlock = pod.updatedAtBlock,
                                          !.updatedAt = pod.updatedAt]
                    ELSE table[i]]
        ELSE Append(table, pod)

\* One pending operation applied inside a transaction.  The createMany
\* operations of seedLogsOperatorShares hold a reference to the run's
\* arrays, so they insert what the arrays hold when the transaction runs.
ApplyOp(d, op, increased, decreased) ==
    CASE op.op = "validatorRestake.deleteMany" ->
            [d EXCEPT !.validatorRestake = {}]
      [] op.op = "pod.deleteMany" ->
            [d EXCEPT !.pod = << >>]
      [] op.op = "pod.createMany" ->
            [d EXCEPT !.pod = PodCreateMany(d.pod, op.data)]
      [] op.op = "pod.upsert" ->
            [d EXCEPT !.pod = PodUpsert(d.pod, op.pod)]
      [] op.op = "eventLogs_OperatorSharesIncreased.createMany" ->
            [d EXCEPT !.increased = CreateManySkipDuplicates(d.increased, increased)]
      [] op.op = "eventLogs_OperatorSharesDecreased.createMany" ->
            [d EXCEPT !.decreased = CreateManySkipDuplicates(d.decreased, decreased)]
      [] op.op = "settings.upsert" ->
            SettingsUpsert(d, op.key, op.value)

\* prismaClient.$transaction(chunk): the operations in order, atomically
\* (the first half of the chunk, then the second half; a store always has
\* fields, and the test on them makes the first half be evaluated before
\* the second, so that a chunk of chunkSize operations is evaluated without
\* deep nesting)
RECURSIVE Transaction(_, _, _, _)
Transaction(d, chunk, increased, decreased) ==
    IF chunk = << >> THEN d
    ELSE IF Len(chunk) = 1 THEN ApplyOp(d, chunk[1], increased, decreased)
    ELSE LET half == Len(chunk) \div 2
             first == Transaction(d, SubSeq(chunk, 1, half), increased, decreased)
         IN IF DOMAIN first = {} THEN first
            ELSE Transaction(first, SubSeq(chunk, half + 1, Len(chunk)),
                             increased, decreased)

\* the values the settings.upsert operations of a chunk write to key
CursorValues(chunk, key) ==
    LET IsUpsert(o) == o.op = "settings.upsert" /\ o.key = key
        upserts == SelectSeq(chunk, IsUpsert)
    IN [i \in 1..Len(upserts) |-> upserts[i].value]

\* chunkArray(dbTransactions, chunkSize): consecutive slices of at most
\* chunkSize elements
NumChunks(dbTransactions) == (Len(dbTransactions) + chunkSize - 1) \div chunkSize

ChunkOversized(dbTransactions, i) ==
    SubSeq(dbTransactions, (i - 1) * chunkSize + 1,
           IF i * chunkSize + 1 < Len(dbTransactions)
                THEN i * chunkSize + 1 ELSE Len(dbTransactions))

ChunkLastFirst(dbTransactions, i) ==
    SubSeq(dbTransactions, (NumChunks(dbTransactions) - i) * chunkSize + 1,
           IF (NumChunks(dbTransactions) - i + 1) * chunkSize < Len(dbTransactions)
                THEN (NumChunks(dbTransactions) - i + 1) * chunkSize
                ELSE Len(dbTransactions))

Chunk(dbTransactions, i) ==
    SubSeq(dbTransactions, (i - 1) * chunkSize + 1,
           IF i * chunkSize < Len(dbTransactions)
                THEN i * chunkSize ELSE Len(dbTransactions))

(***************************************************************************)
(* Sync runs                                                               *)
(***************************************************************************)
\* values the optional arguments toBlock / fromBlock are called with
ArgBlocks == { Undefined, baseBlock, baseBlock + 5003 }

VARIABLES
    pods,     \* the current call of seedPods: position and locals
    podsObs,  \* what an observer of the pods stream recorded
    ops,      \* the current call of seedLogsOperatorShares
    opsObs    \* what an observer of the operator-shares stream recorded

seedVars == <<head, db, pods, podsObs, ops, opsObs>>
vars == <<loopVars, seedVars, callVars>>

PodsIdle ==
    [ pc |-> "idle", runs |-> 0, firstBlock |-> 0, lastBlock |-> 0,
      currentBlock |-> 0, nextBlock |-> 0, podList |-> << >>,
      dbTransactions |-> << >>, i |-> 0, outcome |-> "none" ]

OpsIdle ==
    [ pc |-> "idle", runs |-> 0, firstBlock |-> 0, lastBlock |-> 0,
      currentBlock |-> 0, nextBlock |-> 0,
      logsOperatorSharesIncreased |-> << >>,
      logsOperatorSharesDecreased |-> << >>,
      dbTransactions |-> << >>, i |-> 0, outcome |-> "none" ]

\* Observer record of one stream:
\*   cursorBefore  settings value of the stream's key when the run started
\*   writeFailed   a $transaction or the cursor upsert of the run failed
\*   rpcFailed     an RPC call of the run failed
\*   failedFrom    fromBlock of every batch of the run whose getLogs failed
\*   fromCursor    the run was started without fromBlock, so its firstBlock
\*                 was read from the cursor
\*   allDefault    every run of the stream so far was started with default
\*                 arguments
\*   existed       the run's lastBlock was on the chain when the run started
\*   synced        the last run, if it completed without any failure over a
\*                 range that existed: its range and the table it left
\*   rerun         the current run repeats the range of `synced`
\*   reads         number of times the run read the stream's cursor
\*   writes        the values the run wrote to the stream's cursor, in order
\*   fetched       upper bound of every batch of the run whose logs were read
\*   fetchedRows   length of the run's arrays after every batch of the run
\*                 whose logs were read
\*   batches       upper bound of every batch of the run that completed
\*   getBlock      the block numbers getBlock was called with in the last
\*                 batch of the run, in order
ObsInit ==
    [ reads |-> 0, writes |-> << >>, fetched |-> << >>, batches |-> << >>,
      fetchedRows |-> << >>, getBlock |-> << >>,
      cursorBefore |-> NoRow, writeFailed |-> FALSE, rpcFailed |-> FALSE,
      failedFrom |-> {}, fromCursor |-> FALSE, allDefault |-> TRUE,
      existed |-> FALSE,
      synced |-> [ valid |-> FALSE, firstBlock |-> 0, lastBlock |-> 0,
                   table |-> << >>, other |-> << >> ],
      rerun |-> FALSE ]

ObsAtStart(o, cursor, toBlock, fromBlock, firstBlock, lastBlock, h) ==
    LET same == /\ o.synced.valid
                /\ o.synced.firstBlock = firstBlock
                /\ o.synced.lastBlock = lastBlock
    IN [ o EXCEPT !.reads = IF fromBlock = Undefined THEN 1 ELSE 0,
                  !.writes = << >>,
                  !.fetched = << >>,
                  !.fetchedRows = << >>,
                  !.batches = << >>,
                  !.getBlock = << >>,
                  !.cursorBefore = cursor,
                  !.writeFailed = FALSE,
                  !.rpcFailed = FALSE,
                  !.failedFrom = {},
                  !.fromCursor = fromBlock = Undefined,
                  !.allDefault = o.allDefault /\ toBlock = Undefined
                                              /\ fromBlock = Undefined,
                  !.existed = lastBlock <= h,
                  !.rerun = same,
                  !.synced.valid = same ]

ObsAtDone(o, firstBlock, lastBlock, table, other) ==
    [ o EXCEPT !.synced = [ valid |-> o.existed /\ ~o.writeFailed /\ ~o.rpcFailed,
                            firstBlock |-> firstBlock, lastBlock |-> lastBlock,
                            table |-> IF o.rerun THEN o.synced.table ELSE table,
                            other |-> IF o.rerun THEN o.synced.other ELSE other ] ]

SeedInit ==
    /\ head = 1
    /\ db = [ settings |-> [k \in SettingsKeys |-> NoRow],
              pod |-> << >>,
              validatorRestake |-> { "v1" },
              increased |-> << >>,
              decreased |-> << >> ]
    /\ pods = PodsIdle
    /\ podsObs = ObsInit
    /\ ops = OpsIdle
    /\ opsObs = ObsInit

SeedIdle ==
    /\ head = 1
    /\ db = [ settings |-> [k \in SettingsKeys |-> NoRow], pod |-> << >>,
              validatorRestake |-> {}, increased |-> << >>, decreased |-> << >> ]
    /\ pods = PodsIdle /\ podsObs = ObsInit /\ ops = OpsIdle /\ opsObs = ObsInit

\* new blocks are mined
ChainAdvance ==
    /\ head < Len(Heads)
    /\ head' = head + 1
    /\ UNCHANGED <<db, pods, podsObs, ops, opsObs, restVars>>

(***************************************************************************)
(* seedPods (part_001:21-115)                                              *)
(***************************************************************************)
\* lines 47-62: the Pod row built from one PodDeployed log
DecodePod(log) ==
    [ address |-> ToLowerCase(ArgString(log.args, "eigenPod")),
      owner |-> ToLowerCase(ArgString(log.args, "podOwner")),
      blockNumber |-> log.blockNumber,
      createdAtBlock |-> log.blockNumber,
      updatedAtBlock |-> log.blockNumber,
      createdAt |-> BlockTimestamp(log.blockNumber) * 1000,
      updatedAt |-> BlockTimestamp(log.blockNumber) * 1000 ]

DecodePods(logs) == [i \in 1..Len(logs) |-> DecodePod(logs[i])]

\* lines 44-52: getBlock({ blockNumber }) is awaited for every log of the
\* batch in turn; the block numbers of the calls of one batch
GetBlockCalls(logs) == [i \in 1..Len(logs) |-> logs[i].blockNumber]

\* lines 74-107: the pending operations of the run
PodsBootstrapNever(firstBlock) == FALSE
PodsBootstrapFromBase(firstBlock) == firstBlock >= baseBlock
PodsBootstrap(firstBlock) == firstBlock = baseBlock

PodsDbTransactions(firstBlock, podList) ==
    IF PodsBootstrap(firstBlock)
        THEN << [op |-> "validatorRestake.deleteMany"],
                [op |-> "pod.deleteMany"],
                [op |-> "pod.createMany", data |-> podList] >>
        ELSE [i \in 1..Len(podList) |-> [op |-> "pod.upsert", pod |-> podList[i]]]

\* lines 28-31 with getBlockNumber (when needed) answering
PodsStart(toBlock, fromBlock) ==
    /\ pods.pc \in {"idle", "done", "failed"}
    /\ pods.runs + ops.runs < MaxRuns
    /\ LET firstBlock == IF fromBlock # Undefined THEN fromBlock
                         ELSE fetchLastSyncBlock(db, blockSyncKey)
           lastBlock == IF toBlock # Undefined THEN toBlock ELSE Heads[head]
       IN /\ pods' = [ PodsIdle EXCEPT !.pc = "loop", !.runs = pods.runs + 1,
                                       !.firstBlock = firstBlock,
                                       !.lastBlock = lastBlock,
                                       !.currentBlock = firstBlock,
                                       !.nextBlock = firstBlock ]
          /\ podsObs' = ObsAtStart(podsObs, db.settings[blockSyncKey], toBlock,
                                   fromBlock, firstBlock, lastBlock, Heads[head])
    /\ UNCHANGED <<head, db, ops, opsObs, restVars>>

\* line 31: getBlockNumber rejects, seedPods rejects
PodsStartRpcFail(fromBlock) ==
    /\ pods.pc \in {"idle", "done", "failed"}
    /\ pods.runs + ops.runs < MaxRuns
    /\ LET firstBlock == IF fromBlock # Undefined THEN fromBlock
                         ELSE fetchLastSyncBlock(db, blockSyncKey)
       IN /\ pods' = [ PodsIdle EXCEPT !.pc = "failed", !.runs = pods.runs + 1,
                                       !.firstBlock = firstBlock,
                                       !.outcome = "rejected" ]
          /\ podsObs' = [ ObsAtStart(podsObs, db.settings[blockSyncKey], Undefined,
                                     fromBlock, firstBlock, 0, Heads[head])
                            EXCEPT !.rpcFailed = TRUE, !.rerun = FALSE,
                                   !.synced.valid = FALSE ]
    /\ UNCHANGED <<head, db, ops, opsObs, restVars>>

\* one pass of loopThroughBlocks whose callback (lines 35-67) completes
PodsBatch ==
    /\ pods.pc = "loop"
    /\ LoopCondition(pods.nextBlock, pods.lastBlock)
    /\ LET nb == NextBlockOf(pods.currentBlock, BatchSizeOf(Undefined), pods.lastBlock)
           logs == GetLogs(PodLogs, pods.currentBlock, nb, Heads[head])
       IN /\ pods' = [ pods EXCEPT !.nextBlock = nb,
                                !.currentBlock = CurrentBlockAfter(nb),
                                !.podList = pods.podList \o DecodePods(logs) ]
          /\ podsObs' = [ podsObs EXCEPT !.fetched = Append(@, nb),
                                         !.batches = Append(@, nb),
                                         !.getBlock = GetBlockCalls(logs) ]
    /\ UNCHANGED <<head, db, ops, opsObs, restVars>>

\* one pass whose callback rejects (getLogs or getBlock fails): the
\* rejection leaves loopThroughBlocks and seedPods
PodsBatchRpcFail ==
    /\ pods.pc = "loop"
    /\ LoopCondition(pods.nextBlock, pods.lastBlock)
    /\ LET nb == NextBlockOf(pods.currentBlock, BatchSizeOf(Undefined), pods.lastBlock)
       IN pods' = [ pods EXCEPT !.nextBlock = nb, !.pc = "failed",
                                !.outcome = "rejected" ]
    /\ podsObs' = [ podsObs EXCEPT !.rpcFailed = TRUE,
                                   !.failedFrom = @ \cup {pods.currentBlock} ]
    /\ UNCHANGED <<head, db, ops, opsObs, restVars>>

\* the loop ends; lines 70-107 build dbTransactions and
\* bulkUpdateDbTransactions is entered
PodsPrepare ==
    /\ pods.pc = "loop"
    /\ ~LoopCondition(pods.nextBlock, pods.lastBlock)
    /\ pods' = [ pods EXCEPT !.pc = "write", !.i = 1,
                     !.dbTransactions = PodsDbTransactions(pods.firstBlock, pods.podList) ]
    /\ UNCHANGED <<head, db, podsObs, ops, opsObs, restVars>>

\* seeder.ts:87-91, one chunk committed
PodsChunkCommit ==
    /\ pods.pc = "write"
    /\ pods.i <= NumChunks(pods.dbTransactions)
    /\ db' = Transaction(db, Chunk(pods.dbTransactions, pods.i), << >>, << >>)
    /\ pods' = [ pods EXCEPT !.i = pods.i + 1 ]
    /\ UNCHANGED <<head, podsObs, ops, opsObs, restVars>>

\* seeder.ts:88, the transaction fails and rolls back; seedPods rejects
PodsChunkFail ==
    /\ pods.pc = "write"
    /\ pods.i <= NumChunks(pods.dbTransactions)
    /\ pods' = [ pods EXCEPT !.pc = "failed", !.outcome = "rejected" ]
    /\ podsObs' = [ podsObs EXCEPT !.writeFailed = TRUE ]
    /\ UNCHANGED <<head, db, ops, opsObs, restVars>>

\* line 112: saveLastSyncBlock(blockSyncKey, lastBlock), then seedPods returns
PodsSave ==
    /\ pods.pc = "write"
    /\ pods.i > NumChunks(pods.dbTransactions)
    /\ db' = SettingsUpsert(db, blockSyncKey, NumberOf(pods.lastBlock))
    /\ pods' = [ pods EXCEPT !.pc = "done", !.outcome = "resolved" ]
    /\ podsObs' = [ ObsAtDone(podsObs, pods.firstBlock, pods.lastBlock,
                              db.pod, << >>)
                      EXCEPT !.writes = Append(@, NumberOf(pods.lastBlock)) ]
    /\ UNCHANGED <<head, ops, opsObs, restVars>>

\* line 112: the upsert fails
PodsSaveFail ==
    /\ pods.pc = "write"
    /\ pods.i > NumChunks(pods.dbTransactions)
    /\ pods' = [ pods EXCEPT !.pc = "failed", !.outcome = "rejected" ]
    /\ podsObs' = [ podsObs EXCEPT !.writeFailed = TRUE ]
    /\ UNCHANGED <<head, db, ops, opsObs, restVars>>

PodsNext ==
    \/ \E toBlock \in ArgBlocks, fromBlock \in ArgBlocks : PodsStart(toBlock, fromBlock)
    \/ \E fromBlock \in ArgBlocks : PodsStartRpcFail(fromBlock)
    \/ PodsBatch
    \/ PodsBatchRpcFail
    \/ PodsPrepare
    \/ PodsChunkCommit
    \/ PodsChunkFail
    \/ PodsSave
    \/ PodsSaveFail

(***************************************************************************)
(* seedLogsOperatorShares (part_002:21-123)                                *)
(***************************************************************************)
\* String(n) of a non-negative bigint: its decimal digits
Digit(n) ==
    CASE n = 0 -> "0" [] n = 1 -> "1" [] n = 2 -> "2" [] n = 3 -> "3"
      [] n = 4 -> "4" [] n = 5 -> "5" [] n = 6 -> "6" [] n = 7 -> "7"
      [] n = 8 -> "8" [] n = 9 -> "9"

RECURSIVE DecimalString(_)
DecimalString(n) ==
    IF n < 10 THEN << Digit(n) >>
    ELSE Append(DecimalString(n \div 10), Digit(n % 10))

\* getBlockDataFromDb(firstBlock, lastBlock) followed by
\* blockData.get(blockNumber) || new Date(0)
BlockTime(firstBlock, lastBlock, blockNumber) ==
    LET rows == { r \in EvmBlockData : /\ firstBlock <= r.number
                                       /\ r.number <= lastBlock
                                       /\ r.number = blockNumber }
    IN IF rows = {} THEN 0 ELSE (CHOOSE r \in rows : TRUE).timestamp

\* lines 62-73 and 75-86: the row pushed to both arrays for one log
DecodeShares(log, firstBlock, lastBlock) ==
    [ address |-> log.address,
      transactionHash |-> log.transactionHash,
      transactionIndex |-> log.transactionIndex,
      blockNumber |-> log.blockNumber,
      blockHash |-> log.blockHash,
      blockTime |-> BlockTime(firstBlock, lastBlock, log.blockNumber),
      operator |-> ArgString(log.args, "operator"),
      staker |-> ArgString(log.args, "staker"),
      strategy |-> ArgString(log.args, "strategy"),
      shares |-> IF "shares" \in DOMAIN log.args
                    THEN DecimalString(log.args.shares) ELSE UndefinedString ]

DecodeSharesAll(logs, firstBlock, lastBlock) ==
    [i \in 1..Len(logs) |-> DecodeShares(logs[i], firstBlock, lastBlock)]

\* lines 89-110: the three operations a batch appends to dbTransactions
OpsBatchTransactionsStale(toBlock) ==
    << [op |-> "eventLogs_OperatorSharesIncreased.createMany"],
       [op |-> "eventLogs_OperatorSharesDecreased.createMany"],
       [op |-> "settings.upsert", key |-> blockSyncKeyLogs,
        value |-> NumberOf(toBlock - 1)] >>

OpsBatchTransactions(toBlock) ==
    << [op |-> "eventLogs_OperatorSharesIncreased.createMany"],
       [op |-> "eventLogs_OperatorSharesDecreased.createMany"],
       [op |-> "settings.upsert", key |-> blockSyncKeyLogs,
        value |-> NumberOf(toBlock)] >>

\* lines 33-37 with getBlockNumber (when needed) answering
OpsStart(toBlock, fromBlock) ==
    /\ ops.pc \in {"idle", "done", "failed"}
    /\ pods.runs + ops.runs < MaxRuns
    /\ LET firstBlock == IF fromBlock # Undefined THEN fromBlock
                         ELSE fetchLastSyncBlock(db, blockSyncKeyLogs)
           lastBlock == IF toBlock # Undefined THEN toBlock ELSE Heads[head]
       IN /\ ops' = [ OpsIdle EXCEPT !.pc = "loop", !.runs = ops.runs + 1,
                                     !.firstBlock = firstBlock,
                                     !.lastBlock = lastBlock,
                                     !.currentBlock = firstBlock,
                                     !.nextBlock = firstBlock ]
          /\ opsObs' = ObsAtStart(opsObs, db.settings[blockSyncKeyLogs], toBlock,
                                  fromBlock, firstBlock, lastBlock, Heads[head])
    /\ UNCHANGED <<head, db, pods, podsObs, restVars>>

\* line 36: getBlockNumber rejects outside the try block, the run rejects
OpsStartRpcFail(fromBlock) ==
    /\ ops.pc \in {"idle", "done", "failed"}
    /\ pods.runs + ops.runs < MaxRuns
    /\ LET firstBlock == IF fromBlock # Undefined THEN fromBlock
                         ELSE fetchLastSyncBlock(db, blockSyncKeyLogs)
       IN /\ ops' = [ OpsIdle EXCEPT !.pc = "failed", !.runs = ops.runs + 1,
                                     !.firstBlock = firstBlock,
                                     !.outcome = "rejected" ]
          /\ opsObs' = [ ObsAtStart(opsObs, db.settings[blockSyncKeyLogs], Undefined,
                                    fromBlock, firstBlock, 0, Heads[head])
                           EXCEPT !.rpcFailed = TRUE, !.rerun = FALSE,
                                  !.synced.valid = FALSE ]
    /\ UNCHANGED <<head, db, pods, podsObs, restVars>>

\* a pass of the loop: getLogs answers, lines 59-110 extend the two arrays
\* and dbTransactions, bulkUpdateDbTransactions(dbTransactions) is entered
OpsBatchFetch ==
    /\ ops.pc = "loop"
    /\ LoopCondition(ops.nextBlock, ops.lastBlock)
    /\ LET nb == NextBlockOf(ops.currentBlock, BatchSizeOf(Undefined), ops.lastBlock)
           logs == GetLogs(ShareLogs, ops.currentBlock, nb, Heads[head])
           rows == DecodeSharesAll(logs, ops.firstBlock, ops.lastBlock)
       IN /\ ops' = [ ops EXCEPT
                !.nextBlock = nb,
                !.logsOperatorSharesIncreased = @ \o rows,
                !.logsOperatorSharesDecreased = @ \o rows,
                !.dbTransactions = @ \o OpsBatchTransactions(nb),
                !.i = 1,
                !.pc = "write" ]
          /\ opsObs' = [ opsObs EXCEPT
                !.fetched = Append(@, nb),
                !.fetchedRows = Append(@, Len(ops.logsOperatorSharesIncreased)
                                            + Len(rows)) ]
    /\ UNCHANGED <<head, db, pods, podsObs, restVars>>

\* a pass of the loop: getLogs rejects, `catch (error) {}` ends the
\* callback normally and the loop goes on
OpsBatchGetLogsFailQueued ==
    /\ ops.pc = "loop"
    /\ LoopCondition(ops.nextBlock, ops.lastBlock)
    /\ LET nb == NextBlockOf(ops.currentBlock, BatchSizeOf(Undefined), ops.lastBlock)
       IN /\ ops' = [ ops EXCEPT !.nextBlock = nb,
                                 !.currentBlock = CurrentBlockAfter(nb) ]
          /\ db' = SettingsUpsert(db, blockSyncKeyLogs, NumberOf(nb))
    /\ opsObs' = [ opsObs EXCEPT !.rpcFailed = TRUE,
                                 !.failedFrom = @ \cup {ops.currentBlock} ]
    /\ UNCHANGED <<head, pods, podsObs, restVars>>

OpsBatchGetLogsFail ==
    /\ ops.pc = "loop"
    /\ LoopCondition(ops.nextBlock, ops.lastBlock)
    /\ LET nb == NextBlockOf(ops.currentBlock, BatchSizeOf(Undefined), ops.lastBlock)
       IN ops' = [ ops EXCEPT !.nextBlock = nb,
                              !.currentBlock = CurrentBlockAfter(nb) ]
    /\ opsObs' = [ opsObs EXCEPT !.rpcFailed = TRUE,
                                 !.failedFrom = @ \cup {ops.currentBlock} ]
    /\ UNCHANGED <<head, db, pods, podsObs, restVars>>

\* seeder.ts:87-91, one chunk committed; after the last chunk the callback
\* returns
OpsChunkCommit ==
    /\ ops.pc = "write"
    /\ ops.i <= NumChunks(ops.dbTransactions)
    /\ db' = Transaction(db, Chunk(ops.dbTransactions, ops.i),
                         ops.logsOperatorSharesIncreased,
                         ops.logsOperatorSharesDecreased)
    /\ ops' = IF ops.i < NumChunks(ops.dbTransactions)
                THEN [ ops EXCEPT !.i = ops.i + 1 ]
                ELSE [ ops EXCEPT !.i = ops.i + 1, !.pc = "loop",
                                  !.currentBlock = CurrentBlockAfter(ops.nextBlock) ]
    /\ opsObs' = [ opsObs EXCEPT
            !.writes = @ \o CursorValues(Chunk(ops.dbTransactions, ops.i),
                                         blockSyncKeyLogs),
            !.batches = IF ops.i < NumChunks(ops.dbTransactions)
                            THEN @ ELSE Append(@, ops.nextBlock) ]
    /\ UNCHANGED <<head, pods, podsObs, restVars>>

\* seeder.ts:88, the transaction fails and rolls back; `catch (error) {}`
\* ends the callback normally
OpsChunkFail ==
    /\ ops.pc = "write"
    /\ ops.i <= NumChunks(ops.dbTransactions)
    /\ ops' = [ ops EXCEPT !.pc = "loop",
                           !.currentBlock = CurrentBlockAfter(ops.nextBlock) ]
    /\ opsObs' = [ opsObs EXCEPT !.writeFailed = TRUE ]
    /\ UNCHANGED <<head, db, pods, podsObs, restVars>>

\* the loop ends, lines 117-122, the run resolves
OpsReturn ==
    /\ ops.pc = "loop"
    /\ ~LoopCondition(ops.nextBlock, ops.lastBlock)
    /\ ops' = [ ops EXCEPT !.pc = "done", !.outcome = "resolved" ]
    /\ opsObs' = ObsAtDone(opsObs, ops.firstBlock, ops.lastBlock,
                           db.increased, db.decreased)
    /\ UNCHANGED <<head, db, pods, podsObs, restVars>>

OpsNext ==
    \/ \E toBlock \in ArgBlocks, fromBlock \in ArgBlocks : OpsStart(toBlock, fromBlock)
    \/ \E fromBlock \in ArgBlocks : OpsStartRpcFail(fromBlock)
    \/ OpsBatchFetch
    \/ OpsBatchGetLogsFail
    \/ OpsChunkCommit
    \/ OpsChunkFail
    \/ OpsReturn

(***************************************************************************)
(* Specifications                                                          *)
(***************************************************************************)
Init == LoopIdle /\ SeedInit /\ CallsIdle

Next == PodsNext \/ OpsNext \/ ChainAdvance

Spec == Init /\ [][Next]_vars

InitLoop == LoopInit /\ SeedIdle /\ CallsIdle

NextLoop ==
    \/ LoopIterate /\ UNCHANGED <<seedVars, callVars>>
    \/ LoopCbResolve /\ UNCHANGED <<seedVars, callVars>>
    \/ LoopCbReject /\ UNCHANGED <<seedVars, callVars>>
    \/ LoopReturn /\ UNCHANGED <<seedVars, callVars>>

SpecLoop == InitLoop /\ [][NextLoop]_vars

(***************************************************************************)
(* Properties of loopThroughBlocks, checked under SpecLoop                 *)
(***************************************************************************)
\* the block numbers of the k-th interval, read as an inclusive range
Blocks(k) == lcalls[k][1] .. lcalls[k][2]

\* C1: when firstBlock < lastBlock and batchSize >= 1, a completed call has
\* invoked cb on consecutive intervals: the first starts at firstBlock, each
\* next one starts where the previous one ended, the last one ends at
\* lastBlock, and together they cover exactly [firstBlock, lastBlock]; the
\* example call gives the three intervals of the specification.
C1_CoversRange ==
    /\ \A k \in 1..(Len(lcalls) - 1) : lcalls[k + 1][1] = lcalls[k][2]
    /\ (lpc = "done" /\ lfirst < llast /\ lbatch >= 1) =>
          /\ Len(lcalls) >= 1
          /\ lcalls[1][1] = lfirst
          /\ lcalls[Len(lcalls)][2] = llast
          /\ \A k \in 1..Len(lcalls) : lcalls[k][1] < lcalls[k][2]
          /\ UNION { Blocks(k) : k \in 1..Len(lcalls) } = lfirst .. llast
    /\ (lpc = "done" /\ lfirst = 17000000 /\ llast = 17010000
            /\ lbatch = 4999) =>
          lcalls = << <<17000000, 17004999>>, <<17004999, 17009998>>,
                      <<17009998, 17010000>> >>

C1_Witness ==
    /\ lpc = "done" /\ lfirst < llast /\ lbatch >= 1
    /\ Len(lcalls) = 3
    /\ lcalls[3][2] - lcalls[3][1] < BatchSizeOf(lbatch)

\* C2 as stated: read as inclusive block ranges, no block number belongs to
\* two intervals of a run and no interval holds more than batchSize block
\* numbers.
C2_DisjointAtMostBatchSize ==
    /\ \A j \in 1..Len(lcalls) : \A k \in 1..Len(lcalls) :
            j # k => Blocks(j) \cap Blocks(k) = {}
    /\ \A k \in 1..Len(lcalls) :
            Cardinality(Blocks(k)) <= BatchSizeOf(lbatch)

\* C2 amended: two consecutive intervals share exactly one block number, the
\* boundary (the upper bound of the first, the lower bound of the second);
\* intervals that are not consecutive share none; every interval spans at
\* most batchSize blocks, so it holds at most batchSize + 1 block numbers.
C2_SharedBoundaryOnly ==
    /\ \A j \in 1..Len(lcalls) : \A k \in 1..Len(lcalls) :
            /\ k = j + 1 => Blocks(j) \cap Blocks(k) = { lcalls[j][2] }
            /\ k > j + 1 => Blocks(j) \cap Blocks(k) = {}
    /\ \A k \in 1..Len(lcalls) :
            /\ lcalls[k][2] - lcalls[k][1] <= BatchSizeOf(lbatch)
            /\ Cardinality(Blocks(k)) <= BatchSizeOf(lbatch) + 1

C2_Witness ==
    /\ lpc = "done"
    /\ Len(lcalls) >= 3
    /\ Cardinality(Blocks(1)) = BatchSizeOf(lbatch) + 1

\* C3: cb is invoked once per interval in strictly ascending order, and at
\* most one invocation of cb is in flight at any time.
C3_OneCallbackAtATime ==
    /\ linflight <= 1
    /\ \A j \in 1..Len(lcalls) : \A k \in 1..Len(lcalls) :
            j < k => /\ lcalls[j][1] < lcalls[k][1]
                     /\ lcalls[j][2] < lcalls[k][2]

C3_Witness ==
    /\ Len(lcalls) >= 2
    /\ linflight = 1
    /\ lpc = "await"

\* C4: with firstBlock >= lastBlock no callback fires, and every completed
\* call returns lastBlock.
C4_EmptyRangeAndReturn ==
    /\ lfirst >= llast => lcalls = << >>
    /\ lpc = "done" => lret = llast

C4_Witness ==
    /\ lpc = "done"
    /\ lfirst >= llast
    /\ lcalls = << >>
    /\ lret = llast

(***************************************************************************)
(* Properties of the sync runs, checked under Spec                         *)
(***************************************************************************)
PodsEnded == pods.pc \in {"done", "failed"}
OpsEnded == ops.pc \in {"done", "failed"}

\* C5: no committed write to a stream's cursor key stores a value lower than
\* the value previously committed for that key.
C5_CursorNeverDecreases ==
    [][ \A k \in SettingsKeys :
            db.settings[k] # NoRow => db'.settings[k] >= db.settings[k] ]_vars

\* C6: when the write step of a batch failed during a run, the stream's
\* cursor after the run equals its value before the run.
C6_WriteFailureKeepsCursor ==
    /\ (PodsEnded /\ podsObs.writeFailed) =>
            db.settings[blockSyncKey] = podsObs.cursorBefore
    /\ (OpsEnded /\ opsObs.writeFailed) =>
            db.settings[blockSyncKeyLogs] = opsObs.cursorBefore

\* C7: when getLogs failed for a batch (from, to) of a run that started from
\* the cursor, the stream's cursor at the end of the run is not greater than
\* from, so that a retry scans the failed batch again.
C7_RpcFailureKeepsCursorBehind ==
    /\ (PodsEnded /\ podsObs.fromCursor) =>
            \A from \in podsObs.failedFrom : db.settings[blockSyncKey] <= from
    /\ (OpsEnded /\ opsObs.fromCursor) =>
            \A from \in opsObs.failedFrom : db.settings[blockSyncKeyLogs] <= from

\* C8: a run in which an RPC call or a write transaction failed does not
\* complete as if successful: it rejects.
C8_FailureIsSignalled ==
    /\ (PodsEnded /\ (podsObs.rpcFailed \/ podsObs.writeFailed)) =>
            pods.outcome = "rejected"
    /\ (OpsEnded /\ (opsObs.rpcFailed \/ opsObs.writeFailed)) =>
            ops.outcome = "rejected"

\* C9: after runs started with default arguments only, every matching log
\* of a block between genesis and the stream's cursor is in the stream's
\* destination table.
C9_CursorOnlyMarksStoredBlocks ==
    /\ podsObs.allDefault =>
         \A l \in PodLogs :
            (baseBlock <= l.blockNumber
                /\ l.blockNumber <= db.settings[blockSyncKey]) =>
              \E i \in 1..Len(db.pod) :
                 db.pod[i].address = DecodePod(l).address
    /\ opsObs.allDefault =>
         \A l \in ShareLogs :
            (baseBlock <= l.blockNumber
                /\ l.blockNumber <= db.settings[blockSyncKeyLogs]) =>
              LET table == IF l.eventName = "OperatorSharesIncreased"
                             THEN db.increased ELSE db.decreased
              IN \E i \in 1..Len(table) :
                    /\ table[i].transactionHash = l.transactionHash
                    /\ table[i].blockNumber = l.blockNumber

\* C10: a run that repeats the range of the run before it, which had
\* completed without failure, leaves the destination tables as that run
\* left them, and no table ever holds two records with the same key.
C10_RerunAddsNothing ==
    /\ podsObs.rerun => SameRows(db.pod, podsObs.synced.table)
    /\ opsObs.rerun => /\ SameRows(db.increased, opsObs.synced.table)
                       /\ SameRows(db.decreased, opsObs.synced.other)
    /\ \A i \in 1..Len(db.pod) : \A j \in 1..Len(db.pod) :
            db.pod[i].address = db.pod[j].address => i = j
    /\ \A i \in 1..Len(db.increased) : \A j \in 1..Len(db.increased) :
            NaturalKey(db.increased[i]) = NaturalKey(db.increased[j]) => i = j
    /\ \A i \in 1..Len(db.decreased) : \A j \in 1..Len(db.decreased) :
            NaturalKey(db.decreased[i]) = NaturalKey(db.decreased[j]) => i = j

C10_Witness ==
    /\ ops.pc = "done"
    /\ opsObs.rerun
    /\ ops.firstBlock + DefaultBatchSize < ops.lastBlock
    /\ Len(ops.logsOperatorSharesIncreased) > Len(db.increased)
    /\ Len(db.increased) = 3

\* C11: a Pod or ValidatorRestake row is deleted only by a run of seedPods
\* whose firstBlock is the genesis block; a run with firstBlock # baseBlock
\* deletes no existing row.
PodRowDeleted ==
    \E i \in 1..Len(db.pod) :
        \A j \in 1..Len(db'.pod) : db'.pod[j].address # db.pod[i].address

RestakeRowDeleted == ~(db.validatorRestake \subseteq db'.validatorRestake)

C11_DeleteOnlyFromGenesis ==
    [][ (PodRowDeleted \/ RestakeRowDeleted) => pods.firstBlock = baseBlock ]_vars

C11_Witness ==
    /\ pods.pc = "done"
    /\ pods.firstBlock # baseBlock
    /\ podsObs.cursorBefore # NoRow
    /\ Len(pods.podList) > Len(db.pod)
    /\ Len(db.pod) >= 3

\* the chain log a stored event-log row was built from
SourceLog(row) ==
    CHOOSE l \in ShareLogs : /\ l.transactionHash = row.transactionHash
                             /\ l.blockNumber = row.blockNumber

\* C13: every fetched log yields exactly one stored record: a row of the
\* Increased table comes from an OperatorSharesIncreased log, a row of the
\* Decreased table from an OperatorSharesDecreased log, and no log has a
\* row in both tables.
C13_OneRecordPerLog ==
    /\ \A i \in 1..Len(db.increased) :
            SourceLog(db.increased[i]).eventName = "OperatorSharesIncreased"
    /\ \A i \in 1..Len(db.decreased) :
            SourceLog(db.decreased[i]).eventName = "OperatorSharesDecreased"
    /\ \A i \in 1..Len(db.increased) : \A j \in 1..Len(db.decreased) :
            NaturalKey(db.increased[i]) # NaturalKey(db.decreased[j])

IsLowerCase(s) == s = ToLowerCase(s)

\* C14: every address field of every stored record is in lowercase form.
C14_AddressesLowercase ==
    /\ \A i \in 1..Len(db.pod) :
            IsLowerCase(db.pod[i].address) /\ IsLowerCase(db.pod[i].owner)
    /\ \A t \in {db.increased, db.decreased} : \A i \in 1..Len(t) :
            /\ IsLowerCase(t[i].address)
            /\ IsLowerCase(t[i].operator)
            /\ IsLowerCase(t[i].staker)
            /\ IsLowerCase(t[i].strategy)

\* the logs that lack an argument the decoder reads
MalformedPodLogs ==
    { l \in PodLogs : ~({"eigenPod", "podOwner"} \subseteq DOMAIN l.args) }

\* C15: a log that lacks an expected argument makes decoding fail: no
\* record built from it is queued for writing or stored.
C15_MissingArgumentNotQueued ==
    \A l \in MalformedPodLogs :
        /\ \A i \in 1..Len(pods.podList) :
                pods.podList[i].blockNumber # l.blockNumber
        /\ \A i \in 1..Len(db.pod) : db.pod[i].blockNumber # l.blockNumber

MaxChunks == 2

\* list lengths around every chunk boundary
BulkLens ==
    {0, 1, 2, 3} \cup
    { k * chunkSize + d : k \in 1..MaxChunks, d \in {-1, 0, 1} }

\* the n-th pending operation of a list of pod upserts, as seedPods queues
\* them outside the bootstrap path
BulkPodUpsert(n) ==
    [ op |-> "pod.upsert",
      pod |-> [ address |-> DecimalString(n), owner |-> DecimalString(n % 7),
                blockNumber |-> baseBlock + n,
                createdAtBlock |-> baseBlock + n,
                updatedAtBlock |-> baseBlock + n,
                createdAt |-> 0, updatedAt |-> 0 ] ]

\* the n-th pending operation of a list of cursor upserts
BulkCursorUpsert(n) ==
    [ op |-> "settings.upsert", key |-> blockSyncKeyLogs,
      value |-> NumberOf(baseBlock + n) ]

BulkLists ==
    { [n \in 1..len |-> BulkPodUpsert(n)] : len \in BulkLens } \cup
    { [n \in 1..len |-> BulkCursorUpsert(n)] : len \in BulkLens }

\* the store bulkUpdateDbTransactions is called on
BulkDb ==
    [ settings |-> [k \in SettingsKeys |-> NoRow], pod |-> << >>,
      validatorRestake |-> {}, increased |-> << >>, decreased |-> << >> ]

\* bulk.i is the local i: the number of chunks committed; bulk.started is
\* every chunk handed to $transaction so far, in order
BulkInit ==
    /\ LoopIdle
    /\ head = 1 /\ db = BulkDb
    /\ pods = PodsIdle /\ podsObs = ObsInit /\ ops = OpsIdle /\ opsObs = ObsInit
    /\ sync = SyncIdle /\ metrics = {} /\ agg = AggIdle /\ ExtraIdle
    /\ \E dbTransactions \in BulkLists :
            bulk = [ pc |-> "loop", dbTransactions |-> dbTransactions,
                     i |-> 0, started |-> << >> ]

bulkRest ==
    <<loopVars, head, pods, podsObs, ops, opsObs, sync, metrics, agg,
      cnt, point, total, fetch>>

\* line 87-88: the next chunk is taken and $transaction(chunk) is called
BulkChunkStart ==
    /\ bulk.pc = "loop"
    /\ bulk.i < NumChunks(bulk.dbTransactions)
    /\ bulk' = [ bulk EXCEPT !.pc = "await",
                    !.started = Append(@, Chunk(bulk.dbTransactions, bulk.i + 1)) ]
    /\ UNCHANGED <<db, bulkRest>>

\* line 88-90: the transaction commits, i++
BulkChunkCommit ==
    /\ bulk.pc = "await"
    /\ db' = Transaction(db, bulk.started[Len(bulk.started)], << >>, << >>)
    /\ bulk' = [ bulk EXCEPT !.pc = "loop", !.i = bulk.i + 1 ]
    /\ UNCHANGED bulkRest

\* line 88: the transaction fails and rolls back, the rejection leaves
\* bulkUpdateDbTransactions
BulkChunkFailPartial ==
    /\ bulk.pc = "await"
    /\ db' = ApplyOp(db, Head(bulk.started[Len(bulk.started)]), << >>, << >>)
    /\ bulk' = [ bulk EXCEPT !.pc = "failed" ]
    /\ UNCHANGED bulkRest

BulkChunkFail ==
    /\ bulk.pc = "await"
    /\ bulk' = [ bulk EXCEPT !.pc = "failed" ]
    /\ UNCHANGED <<db, bulkRest>>

\* line 93: no chunk is left, the function returns
BulkReturn ==
    /\ bulk.pc = "loop"
    /\ bulk.i >= NumChunks(bulk.dbTransactions)
    /\ bulk' = [ bulk EXCEPT !.pc = "done" ]
    /\ UNCHANGED <<db, bulkRest>>

NextBulk == BulkChunkStart \/ BulkChunkCommit \/ BulkChunkFail \/ BulkReturn

SpecBulk == BulkInit /\ [][NextBulk]_vars

\* the operations of the first k chunks of the list
BulkPrefix(k) ==
    SubSeq(bulk.dbTransactions, 1,
           IF k * chunkSize < Len(bulk.dbTransactions)
                THEN k * chunkSize ELSE Len(bulk.dbTransactions))

\* C12 as stated: after a failed call none of the list's operations is
\* committed, whatever the length of the list.
C12_FailedCallCommitsNothing ==
    bulk.pc = "failed" => db = BulkDb

\* C12: when the call fails in a chunk, exactly the operations of the chunks
\* before it are committed, in list order, and no operation of the failing
\* chunk or of a later one is; for a list of at most chunkSize operations
\* nothing is committed.
C12_FailedCallKeepsEarlierChunks ==
    bulk.pc = "failed" =>
        /\ db = Transaction(BulkDb, BulkPrefix(bulk.i), << >>, << >>)
        /\ Len(bulk.started) = bulk.i + 1
        /\ Len(bulk.dbTransactions) <= chunkSize => db = BulkDb

C12_Witness ==
    /\ bulk.pc = "failed"
    /\ bulk.i = 1
    /\ Len(bulk.dbTransactions) = chunkSize + 1
    /\ Len(db.pod) = chunkSize

\* the operations of the chunks started so far, in the order submitted
RECURSIVE Flatten(_)
Flatten(chunks) ==
    IF chunks = << >> THEN << >>
    ELSE Flatten(SubSeq(chunks, 1, Len(chunks) - 1)) \o chunks[Len(chunks)]

\* C18: the pending operations are submitted as consecutive chunks of at
\* most chunkSize operations in list order (the chunks started so far make
\* up a prefix of the list, so each operation is in exactly one chunk and
\* the order is kept), a chunk is started only after every earlier chunk
\* has committed, each committed chunk is applied whole, and a call that
\* returns has submitted and committed the whole list.
C18_ConsecutiveChunksInOrder ==
    /\ \A k \in 1..Len(bulk.started) :
            Len(bulk.started[k]) >= 1 /\ Len(bulk.started[k]) <= chunkSize
    /\ Flatten(bulk.started)
            = SubSeq(bulk.dbTransactions, 1, Len(Flatten(bulk.started)))
    /\ \A k \in 1..(Len(bulk.started) - 1) : Len(bulk.started[k]) = chunkSize
    /\ Len(bulk.started) = IF bulk.pc \in {"await", "failed"}
                              THEN bulk.i + 1 ELSE bulk.i
    /\ db = Transaction(BulkDb, Flatten(SubSeq(bulk.started, 1, bulk.i)),
                        << >>, << >>)
    /\ bulk.pc = "done" => Flatten(bulk.started) = bulk.dbTransactions

C18_Witness ==
    /\ bulk.pc = "done"
    /\ Len(bulk.started) = 3
    /\ Len(bulk.started[3]) = 1
    /\ Len(db.pod) = 2 * chunkSize + 1

(***************************************************************************)
(* The cursor store on its own (seeder.ts:96-106, 120-128)                 *)
(***************************************************************************)
\* the block numbers saveLastSyncBlock is called with
SyncBlocks == { 0, 1, baseBlock - 1, baseBlock, baseBlock + 1, baseBlock + 4999 }

\* sync.op is the last call made, sync.result what the last
\* fetchLastSyncBlock returned, sync.last[key] the block number of the last
\* saveLastSyncBlock(key, _) that completed (NoRow when there was none)
SyncInit ==
    /\ LoopIdle
    /\ head = 1 /\ db = BulkDb
    /\ pods = PodsIdle /\ podsObs = ObsInit /\ ops = OpsIdle /\ opsObs = ObsInit
    /\ bulk = BulkIdle /\ metrics = {} /\ agg = AggIdle /\ ExtraIdle
    /\ sync = SyncIdle

syncRest ==
    <<loopVars, head, pods, podsObs, ops, opsObs, bulk, metrics, agg,
      cnt, point, total, fetch>>

\* saveLastSyncBlock(key, blockNumber), the upsert completes
SyncSave(key, blockNumber) ==
    /\ db' = SettingsUpsert(db, key, NumberOf(blockNumber))
    /\ sync' = [ sync EXCEPT !.op = << "save", key, blockNumber >>,
                             !.last[key] = blockNumber ]
    /\ UNCHANGED syncRest

\* saveLastSyncBlock(key, blockNumber), the upsert rejects
SyncSaveFail(key, blockNumber) ==
    /\ sync' = [ sync EXCEPT !.op = << "saveFailed", key, blockNumber >> ]
    /\ UNCHANGED <<db, syncRest>>

\* fetchLastSyncBlock(key)
SyncFetch(key) ==
    /\ sync' = [ sync EXCEPT !.op = << "fetch", key >>,
                             !.result = fetchLastSyncBlock(db, key) ]
    /\ UNCHANGED <<db, syncRest>>

NextSync ==
    \/ \E key \in SettingsKeys, blockNumber \in SyncBlocks : SyncSave(key, blockNumber)
    \/ \E key \in SettingsKeys, blockNumber \in SyncBlocks : SyncSaveFail(key, blockNumber)
    \/ \E key \in SettingsKeys : SyncFetch(key)

SpecSync == SyncInit /\ [][NextSync]_vars

\* C16: fetchLastSyncBlock(key) returns baseBlock when nothing was saved for
\* key and otherwise the block number last saved for key, whatever that
\* block number is; saving again the value just saved leaves the store as
\* it is.
C16_CursorRoundTrip ==
    [][ /\ sync'.op[1] = "fetch" =>
              sync'.result = IF sync.last[sync'.op[2]] = NoRow
                                THEN baseBlock
                                ELSE sync.last[sync'.op[2]]
        /\ (sync'.op[1] = "save" /\ sync'.op = sync.op) => db' = db
      ]_vars

(***************************************************************************)
(* Historical series (part_000:1067-1130, 1287-1399, 1401-1504,            *)
(* 1619-1642, 1680-1775)                                                   *)
(***************************************************************************)
\* the longest window explored with hourly rows, in hours
MaxSpan == 4

Hour == 3600000
Day == 86400000
T0 == 72 * Hour

\* getOffsetInMs(frequency)
getOffsetInMs(frequency) ==
    CASE frequency = "1h" -> 3600000
      [] frequency = "1d" -> 86400000
      [] frequency = "7d" -> 604800000
      [] OTHER -> 3600000

\* { '1h': ..., '1d': ..., '7d': ... }[frequency] || 3600000
TimeIntervalOf(frequency) ==
    IF frequency \in {"1h", "1d", "7d"}
        THEN (CASE frequency = "1h" -> 3600000
                [] frequency = "1d" -> 86400000
                [] frequency = "7d" -> 604800000)
        ELSE 3600000

\* resetTime(date): setUTCMinutes(0, 0, 0) on a time in milliseconds
resetTime(date) == date - (date % 3600000)

beaconAddress == << "0", "x", "b", "e", "a", "c" >>

\* ethPrices?.get(address) || 0
NoPrices == [ defined |-> FALSE ]
PriceOf(ethPrices, address) ==
    IF ethPrices.defined /\ address \in DOMAIN ethPrices.price
        THEN ethPrices.price[address] ELSE 0

\* `if (!isEthDenominated && !ethPrices) throw`
PricesMissing(isEthDenominated, ethPrices) ==
    ~isEthDenominated /\ ~ethPrices.defined

\* orderBy: { timestamp: 'asc' }
RECURSIVE OrderByTimestampAsc(_)
OrderByTimestampAsc(rows) ==
    IF rows = {} THEN << >>
    ELSE LET r == CHOOSE r \in rows : \A q \in rows : r.timestamp <= q.timestamp
         IN << r >> \o OrderByTimestampAsc(rows \ {r})

\* where: { address } of a query; NoAddress when the query has no such filter
NoAddress == << >>
AddressMatches(row, address) == address = NoAddress \/ row.address = address

\* findMany({ where: { timestamp: { gte, lte }, address }, orderBy asc })
FindMany(table, gte, lte, address) ==
    OrderByTimestampAsc({ r \in table : /\ r.timestamp >= gte
                                       /\ r.timestamp <= lte
                                       /\ AddressMatches(r, address) })

\* findFirst({ where: { timestamp: { lt }, address }, orderBy desc })
NoResult == [ found |-> FALSE ]
FindFirstBeforeOldest(table, lt, address) ==
    LET rows == { r \in table : r.timestamp < lt /\ AddressMatches(r, address) }
    IN IF rows = {} THEN NoResult
       ELSE [ found |-> TRUE,
              row |-> CHOOSE r \in rows : \A q \in rows : r.timestamp <= q.timestamp ]

FindFirstBefore(table, lt, address) ==
    LET rows == { r \in table : r.timestamp < lt /\ AddressMatches(r, address) }
    IN IF rows = {} THEN NoResult
       ELSE [ found |-> TRUE,
              row |-> CHOOSE r \in rows : \A q \in rows : q.timestamp <= r.timestamp ]

\* getInitialTvlCumulative (lines 1680-1722) once the price check passed
getInitialTvlCumulativeNoBackfill(startTimestamp, hourlyData, isEthDenominated, table, ethPrices) ==
    IF Len(hourlyData) > 0 /\ hourlyData[1].timestamp = startTimestamp
        THEN hourlyData[1].tvlEth
        ELSE 0

getInitialTvlCumulative(startTimestamp, hourlyData, isEthDenominated, table, ethPrices) ==
    IF Len(hourlyData) > 0 /\ hourlyData[1].timestamp = startTimestamp
        THEN IF isEthDenominated
                THEN hourlyData[1].tvlEth
                ELSE hourlyData[1].tvl * PriceOf(ethPrices, hourlyData[1].strategyAddress)
        ELSE LET result == FindFirstBefore(table, startTimestamp, NoAddress)
             IN IF ~result.found THEN 0
                ELSE IF isEthDenominated
                        THEN result.row.tvlEth
                        ELSE result.row.tvl * PriceOf(ethPrices, beaconAddress)

\* intervalData.reduce((sum, record) => sum + f(record), 0)
RECURSIVE Sum(_)
Sum(values) ==
    IF values = << >> THEN 0
    ELSE Sum(SubSeq(values, 1, Len(values) - 1)) + values[Len(values)]

\* the values of one field of the rows of a bucket
FieldOf(intervalData, field) ==
    [i \in 1..Len(intervalData) |-> intervalData[i][field]]

\* calculateTvlForHistoricalRecord (lines 1734-1775) once the price check
\* passed
calculateTvlForHistoricalRecordReset(intervalData, variant, previousTvl, isEthDenominated, ethPrices) ==
    IF variant = "cumulative"
        THEN IF Len(intervalData) > 0
                THEN intervalData[Len(intervalData)].tvlEth
                ELSE 0
        ELSE 0

calculateTvlForHistoricalRecord(intervalData, variant, previousTvl, isEthDenominated, ethPrices) ==
    IF variant = "cumulative"
        THEN IF Len(intervalData) > 0
                THEN LET lastRecord == intervalData[Len(intervalData)]
                     IN IF isEthDenominated
                            THEN lastRecord.tvlEth
                            ELSE lastRecord.tvl
                                    * PriceOf(ethPrices, lastRecord.strategyAddress)
                ELSE previousTvl
        ELSE Sum([i \in 1..Len(intervalData) |->
                    IF isEthDenominated
                        THEN intervalData[i].changeTvlEth
                        ELSE intervalData[i].changeTvl
                                * PriceOf(ethPrices, intervalData[i].strategyAddress)])

\* hourlyData.filter(data => data.timestamp >= currentTimestamp
\*                           && data.timestamp < nextTimestamp)
\* while (currentTimestamp <= endTimestamp): the test of every series walk
WalkConditionExclusive(currentTimestamp, endTimestamp) ==
    currentTimestamp < endTimestamp

WalkCondition(currentTimestamp, endTimestamp) ==
    currentTimestamp <= endTimestamp

IntervalDataInclusive(hourlyData, currentTimestamp, nextTimestamp) ==
    LET In(data) == /\ data.timestamp >= currentTimestamp
                    /\ data.timestamp <= nextTimestamp
    IN SelectSeq(hourlyData, In)

IntervalData(hourlyData, currentTimestamp, nextTimestamp) ==
    LET In(data) == /\ data.timestamp >= currentTimestamp
                    /\ data.timestamp < nextTimestamp
    IN SelectSeq(hourlyData, In)

\* the three historical routes explored
AvsAggregate == "doGetHistoricalAvsAggregate"
OperatorsAggregate == "doGetHistoricalOperatorsAggregate"
TvlBeacon == "doGetHistoricalTvlBeacon"
AggFunctions == { AvsAggregate, OperatorsAggregate, TvlBeacon }

\* the hourly snapshot rows the tables may hold: two entities, rows before
\* and inside the windows queried
MetricRow(address, hours, tvlEth) ==
    [ address |-> address, timestamp |-> T0 + hours * Hour,
      tvlEth |-> tvlEth, changeTvlEth |-> tvlEth \div 10,
      totalStakers |-> tvlEth \div 5, changeStakers |-> 1 + tvlEth \div 50,
      totalOperators |-> tvlEth \div 20, changeOperators |-> 1 ]

MetricCandidates ==
    { MetricRow(<< "0", "x", "a", "1" >>, -1, 80),
      MetricRow(<< "0", "x", "a", "1" >>, 0, 100),
      MetricRow(<< "0", "x", "a", "1" >>, 1, 120),
      MetricRow(<< "0", "x", "a", "1" >>, 3, 150),
      MetricRow(<< "0", "x", "a", "2" >>, 1, 500),
      MetricRow(<< "0", "x", "a", "2" >>, 3, 700) }

\* a row of an entity table: created twenty minutes into the hour of r
\* when late, on the hour otherwise
EntityRow(r, late) ==
    [ id |-> r.tvlEth,
      createdAt |-> IF late THEN r.timestamp + 1200000 ELSE r.timestamp ]

\* metricAvsHourly and metricOperatorHourly hold rows per entity,
\* metricEigenPodsHourly, metricDepositHourly and metricWithdrawalHourly one
\* row per hour; the entity tables doGetHistoricalCount counts hold one row
\* per entity
MetricTables(rows) ==
    [ avs |-> { EntityRow(r, TRUE) : r \in rows },
      operator |-> { EntityRow(r, FALSE) :
                        r \in { q \in rows : q.address = << "0", "x", "a", "2" >> } },
      staker |-> { EntityRow(r, FALSE) :
                        r \in { q \in rows : q.address = << "0", "x", "a", "1" >> } },
      withdrawalQueued |->
        { EntityRow(r, TRUE) :
            r \in { q \in rows : q.address = << "0", "x", "a", "1" >> } },
      deposit |-> { EntityRow(r, FALSE) : r \in rows },
      metricStrategyHourly |->
        { [ strategyAddress |-> r.address, timestamp |-> r.timestamp,
            tvl |-> r.tvlEth, changeTvl |-> r.changeTvlEth ] : r \in rows }
        \cup { [ strategyAddress |-> beaconAddress, timestamp |-> r.timestamp,
                 tvl |-> r.tvlEth \div 100, changeTvl |-> r.changeTvlEth \div 100 ] :
               r \in { q \in rows : q.address = << "0", "x", "a", "2" >> } },
      metricDepositHourly |->
        { [ timestamp |-> r.timestamp, tvlEth |-> r.tvlEth,
            changeTvlEth |-> r.changeTvlEth ] :
          r \in { q \in rows : q.address = << "0", "x", "a", "1" >> } },
      metricWithdrawalHourly |->
        { [ timestamp |-> r.timestamp, tvlEth |-> r.tvlEth,
            changeTvlEth |-> r.changeTvlEth ] :
          r \in { q \in rows : q.address = << "0", "x", "a", "2" >> } },
      metricAvsHourly |-> rows,
      metricOperatorHourly |-> rows,
      metricEigenPodsHourly |->
        { [ timestamp |-> r.timestamp, tvlEth |-> r.tvlEth,
            changeTvlEth |-> r.changeTvlEth ] :
          r \in { q \in rows : q.address = << "0", "x", "a", "1" >> } } ]

TableOf(fn) ==
    CASE fn = AvsAggregate -> metrics.metricAvsHourly
      [] fn = OperatorsAggregate -> metrics.metricOperatorHourly
      [] fn = TvlBeacon -> metrics.metricEigenPodsHourly

\* the arguments of the calls explored
AggAddresses == { << "0", "x", "A", "1" >> }
AggStartAts == { T0 + 1800000, T0 + 2 * Hour }
AggSpans == { h * Hour : h \in 0..MaxSpan } \cup { Day }
AggFrequencies == { "1h", "1d", "7d", "1w" }
AggVariants == { "cumulative", "discrete" }

AggInit ==
    /\ LoopIdle
    /\ head = 1 /\ db = BulkDb
    /\ pods = PodsIdle /\ podsObs = ObsInit /\ ops = OpsIdle /\ opsObs = ObsInit
    /\ bulk = BulkIdle /\ sync = SyncIdle
    /\ \E rows \in SUBSET MetricCandidates : metrics = MetricTables(rows)
    /\ agg = AggIdle /\ ExtraIdle

aggRest ==
    <<loopVars, head, db, pods, podsObs, ops, opsObs, bulk, sync, metrics,
      cnt, point, total, fetch>>

Zero == [ tvlEth |-> 0, totalStakers |-> 0, totalOperators |-> 0 ]

\* doGetHistoricalAvsAggregate, lines 1324-1359: the values before the walk
AvsInitial(variant, hourlyData, startTimestamp, table, address) ==
    IF variant = "cumulative"
        THEN IF Len(hourlyData) > 0 /\ hourlyData[1].timestamp = startTimestamp
                THEN [ tvlEth |-> hourlyData[1].tvlEth,
                       totalStakers |-> hourlyData[1].totalStakers,
                       totalOperators |-> hourlyData[1].totalOperators ]
                ELSE LET result == FindFirstBefore(table, startTimestamp, address)
                     IN [ tvlEth |-> IF result.found THEN result.row.tvlEth ELSE 0,
                          totalStakers |->
                            IF result.found THEN result.row.totalStakers ELSE 0,
                          totalOperators |->
                            IF result.found THEN result.row.totalOperators ELSE 0 ]
        ELSE Zero

\* doGetHistoricalAvsAggregate, lines 1368-1386: the values of one bucket
AvsBucketRunning(variant, intervalData, previous) ==
    IF variant = "cumulative"
        THEN IF Len(intervalData) > 0
                THEN [ tvlEth |-> intervalData[Len(intervalData)].tvlEth,
                       totalStakers |-> intervalData[Len(intervalData)].totalStakers,
                       totalOperators |->
                            intervalData[Len(intervalData)].totalOperators ]
                ELSE previous
        ELSE [ tvlEth |-> previous.tvlEth
                            + Sum(FieldOf(intervalData, "changeTvlEth")),
               totalStakers |-> Sum(FieldOf(intervalData, "changeStakers")),
               totalOperators |-> Sum(FieldOf(intervalData, "changeOperators")) ]

AvsBucket(variant, intervalData, previous) ==
    IF variant = "cumulative"
        THEN IF Len(intervalData) > 0
                THEN [ tvlEth |-> intervalData[Len(intervalData)].tvlEth,
                       totalStakers |-> intervalData[Len(intervalData)].totalStakers,
                       totalOperators |->
                            intervalData[Len(intervalData)].totalOperators ]
                ELSE previous
        ELSE [ tvlEth |-> Sum(FieldOf(intervalData, "changeTvlEth")),
               totalStakers |-> Sum(FieldOf(intervalData, "changeStakers")),
               totalOperators |-> Sum(FieldOf(intervalData, "changeOperators")) ]

\* doGetHistoricalOperatorsAggregate, lines 1436-1468
OperatorsInitial(variant, hourlyData, startTimestamp, table, address) ==
    IF variant = "cumulative"
        THEN IF Len(hourlyData) > 0 /\ hourlyData[1].timestamp = startTimestamp
                THEN [ Zero EXCEPT !.tvlEth = hourlyData[1].tvlEth,
                                   !.totalStakers = hourlyData[1].totalStakers ]
                ELSE LET result == FindFirstBefore(table, startTimestamp, address)
                     IN [ Zero EXCEPT
                            !.tvlEth = IF result.found THEN result.row.tvlEth ELSE 0,
                            !.totalStakers =
                                IF result.found THEN result.row.totalStakers ELSE 0 ]
        ELSE Zero

\* doGetHistoricalOperatorsAggregate, lines 1477-1491
OperatorsBucket(variant, intervalData, previous) ==
    IF variant = "cumulative"
        THEN IF Len(intervalData) > 0
                THEN [ previous EXCEPT
                        !.tvlEth = intervalData[Len(intervalData)].tvlEth,
                        !.totalStakers =
                            intervalData[Len(intervalData)].totalStakers ]
                ELSE previous
        ELSE [ previous EXCEPT
                !.tvlEth = Sum(FieldOf(intervalData, "changeTvlEth")),
                !.totalStakers = Sum(FieldOf(intervalData, "changeStakers")) ]

\* the fields of a point of the series of fn
AggFields(fn) ==
    CASE fn = AvsAggregate -> { "tvlEth", "totalStakers", "totalOperators" }
      [] fn = OperatorsAggregate -> { "tvlEth", "totalStakers" }
      [] fn = TvlBeacon -> { "tvlEth" }

\* results.push({ timestamp, ... })
AggPoint(fn, currentTimestamp, values) ==
    [ f \in AggFields(fn) \cup { "timestamp" } |->
        IF f = "timestamp" THEN currentTimestamp ELSE values[f] ]

\* the call up to the walk: the window, the rows loaded, the values the
\* walk starts from (agg.seed keeps them)
AggStart(fn, address, startAt, endAt, frequency, variant) ==
    /\ agg.pc = "idle" /\ cnt.pc = "idle"
    /\ LET startTimestamp == resetTime(startAt)
           endTimestamp == resetTime(endAt)
           where == IF fn = TvlBeacon THEN NoAddress ELSE ToLowerCase(address)
           hourlyData == FindMany(TableOf(fn), startTimestamp, endTimestamp, where)
           values ==
             CASE fn = AvsAggregate ->
                    AvsInitial(variant, hourlyData, startTimestamp,
                               TableOf(fn), where)
               [] fn = OperatorsAggregate ->
                    OperatorsInitial(variant, hourlyData, startTimestamp,
                                     TableOf(fn), where)
               [] fn = TvlBeacon ->
                    [ Zero EXCEPT !.tvlEth =
                        IF variant = "cumulative"
                            THEN getInitialTvlCumulative(startTimestamp, hourlyData,
                                    TRUE, TableOf(fn), NoPrices)
                            ELSE 0 ]
       IN agg' = [ pc |-> IF fn = TvlBeacon /\ variant = "cumulative"
                                /\ PricesMissing(TRUE, NoPrices)
                            THEN "failed" ELSE "walk",
                   fn |-> fn, where |-> where, frequency |-> frequency,
                   variant |-> variant,
                   startTimestamp |-> startTimestamp,
                   endTimestamp |-> endTimestamp,
                   currentTimestamp |-> startTimestamp,
                   hourlyData |-> hourlyData,
                   values |-> values, seed |-> values,
                   results |-> << >> ]
    /\ UNCHANGED aggRest

\* one pass of the while loop
AggBucket ==
    /\ agg.pc = "walk"
    /\ WalkCondition(agg.currentTimestamp, agg.endTimestamp)
    /\ LET offset == IF agg.fn = TvlBeacon THEN getOffsetInMs(agg.frequency)
                     ELSE TimeIntervalOf(agg.frequency)
           nextTimestamp == agg.currentTimestamp + offset
           intervalData == IntervalData(agg.hourlyData, agg.currentTimestamp,
                                        nextTimestamp)
           values ==
             CASE agg.fn = AvsAggregate ->
                    AvsBucket(agg.variant, intervalData, agg.values)
               [] agg.fn = OperatorsAggregate ->
                    OperatorsBucket(agg.variant, intervalData, agg.values)
               [] agg.fn = TvlBeacon ->
                    [ agg.values EXCEPT !.tvlEth =
                        calculateTvlForHistoricalRecord(intervalData, agg.variant,
                            agg.values.tvlEth, TRUE, NoPrices) ]
       IN agg' = [ agg EXCEPT
                    !.pc = IF agg.fn = TvlBeacon /\ PricesMissing(TRUE, NoPrices)
                              THEN "failed" ELSE "walk",
                    !.values = values,
                    !.results = Append(@, AggPoint(agg.fn, agg.currentTimestamp,
                                                  values)),
                    !.currentTimestamp = nextTimestamp ]
    /\ UNCHANGED aggRest

\* the loop ends, results is returned
AggReturn ==
    /\ agg.pc = "walk"
    /\ ~WalkCondition(agg.currentTimestamp, agg.endTimestamp)
    /\ agg' = [ agg EXCEPT !.pc = "done" ]
    /\ UNCHANGED aggRest

\* doGetHistoricalCount, line 1513: the model names it accepts
CountModels == { "avs", "operator", "staker", "withdrawalQueued", "deposit" }

\* the model names of the calls explored
CountModelNames == { "avs", "operator", "strategy" }

\* orderBy: { createdAt: 'asc' }, select: { createdAt: true }
RECURSIVE OrderByCreatedAtAsc(_)
OrderByCreatedAtAsc(rows) ==
    IF rows = {} THEN << >>
    ELSE LET r == CHOOSE r \in rows : \A q \in rows : r.createdAt <= q.createdAt
         IN << [ createdAt |-> r.createdAt ] >> \o OrderByCreatedAtAsc(rows \ {r})

\* model.count({ where: { createdAt: { lt: startDate } } })
CountBefore(table, startDate) ==
    Cardinality({ r \in table : r.createdAt < startDate })

\* model.findMany({ where: { createdAt: { gte: startDate, lte: endDate } } })
CountFindMany(table, startDate, endDate) ==
    OrderByCreatedAtAsc({ r \in table : /\ r.createdAt >= startDate
                                        /\ r.createdAt <= endDate })

\* modelData.filter(createdAt >= currentDate && createdAt < nextDate)
CountIntervalDataInclusive(modelData, currentDate, nextDate) ==
    LET In(data) == data.createdAt >= currentDate /\ data.createdAt <= nextDate
    IN SelectSeq(modelData, In)

CountIntervalData(modelData, currentDate, nextDate) ==
    LET In(data) == data.createdAt >= currentDate /\ data.createdAt < nextDate
    IN SelectSeq(modelData, In)

countRest ==
    <<loopVars, head, db, pods, podsObs, ops, opsObs, bulk, sync, metrics,
      agg, point, total, fetch>>

\* doGetHistoricalCount up to the walk: the model name is checked, the
\* window is truncated, the rows before it are counted, its rows loaded
CountStart(modelName, startAt, endAt, frequency, variant) ==
    /\ cnt.pc = "idle" /\ agg.pc = "idle"
    /\ IF modelName \notin CountModels
          THEN cnt' = [ pc |-> "failed", modelName |-> modelName,
                        error |-> "Invalid model name" ]
          ELSE LET startDate == resetTime(startAt)
                   endDate == resetTime(endAt)
                   initialTally == CountBefore(metrics[modelName], startDate)
               IN cnt' = [ pc |-> "walk", modelName |-> modelName,
                           frequency |-> frequency, variant |-> variant,
                           startDate |-> startDate, endDate |-> endDate,
                           currentDate |-> startDate,
                           modelData |-> CountFindMany(metrics[modelName],
                                                       startDate, endDate),
                           initialTally |-> initialTally,
                           tally |-> initialTally,
                           results |-> << >> ]
    /\ UNCHANGED countRest

\* one pass of the while loop of doGetHistoricalCount
CountBucket ==
    /\ cnt.pc = "walk"
    /\ WalkCondition(cnt.currentDate, cnt.endDate)
    /\ LET nextDate == cnt.currentDate + TimeIntervalOf(cnt.frequency)
           intervalData == CountIntervalData(cnt.modelData, cnt.currentDate,
                                             nextDate)
           tally == IF cnt.variant = "discrete" THEN cnt.tally
                    ELSE cnt.tally + Len(intervalData)
       IN cnt' = [ cnt EXCEPT
                    !.tally = tally,
                    !.results = Append(@,
                        [ timestamp |-> cnt.currentDate,
                          value |-> IF cnt.variant = "discrete"
                                        THEN Len(intervalData) ELSE tally ]),
                    !.currentDate = nextDate ]
    /\ UNCHANGED countRest

\* the loop ends, results is returned
CountReturn ==
    /\ cnt.pc = "walk"
    /\ ~WalkCondition(cnt.currentDate, cnt.endDate)
    /\ cnt' = [ cnt EXCEPT !.pc = "done" ]
    /\ UNCHANGED countRest

NextAgg ==
    \/ \E fn \in AggFunctions, address \in AggAddresses, startAt \in AggStartAts,
          span \in AggSpans, frequency \in AggFrequencies, variant \in AggVariants :
            AggStart(fn, address, startAt, startAt + span, frequency, variant)
    \/ AggBucket
    \/ AggReturn
    \/ \E modelName \in CountModelNames, startAt \in AggStartAts,
          span \in AggSpans, frequency \in AggFrequencies, variant \in AggVariants :
            CountStart(modelName, startAt, startAt + span, frequency, variant)
    \/ CountBucket
    \/ CountReturn

SpecAgg == AggInit /\ [][NextAgg]_vars

\* the snapshot rows of the queried entity inside the window
AggLoaded ==
    { r \in TableOf(agg.fn) : /\ AddressMatches(r, agg.where)
                              /\ r.timestamp >= agg.startTimestamp
                              /\ r.timestamp <= agg.endTimestamp }

\* the snapshot rows of the queried entity strictly before the window
AggPrior ==
    { r \in TableOf(agg.fn) : /\ AddressMatches(r, agg.where)
                              /\ r.timestamp < agg.startTimestamp }

Earliest(rows) == CHOOSE r \in rows : \A q \in rows : r.timestamp <= q.timestamp
Latest(rows) == CHOOSE r \in rows : \A q \in rows : q.timestamp <= r.timestamp

\* C19: in a cumulative series every bucket's value is the absolute value
\* of the latest loaded row whose timestamp lies in the bucket, and when the
\* bucket has no row it is the value of the previous bucket (the seed for
\* the first bucket); rows at t0 (100) and t0+3h (150), window [t0, t0+4h]
\* and frequency 1h give 100, 100, 100, 150, 150.
C19_CumulativeCarryForward ==
    (agg.pc # "idle" /\ agg.variant = "cumulative") =>
        /\ \A k \in 1..Len(agg.results) :
            LET bucketStart == agg.results[k].timestamp
                rows == { r \in AggLoaded :
                            /\ r.timestamp >= bucketStart
                            /\ r.timestamp < bucketStart + getOffsetInMs(agg.frequency) }
            IN \A f \in AggFields(agg.fn) :
                agg.results[k][f] =
                    IF rows # {} THEN Latest(rows)[f]
                    ELSE IF k = 1 THEN agg.seed[f]
                    ELSE agg.results[k - 1][f]
        /\ ( /\ agg.pc = "done" /\ agg.frequency = "1h"
             /\ agg.startTimestamp = T0 /\ agg.endTimestamp = T0 + 4 * Hour
             /\ { r.timestamp : r \in AggLoaded } = { T0, T0 + 3 * Hour } )
           => [ k \in 1..Len(agg.results) |-> agg.results[k].tvlEth ]
                    = << 100, 100, 100, 150, 150 >>

C19_Witness ==
    /\ agg.pc = "done" /\ agg.variant = "cumulative" /\ agg.frequency = "1h"
    /\ agg.fn = AvsAggregate
    /\ agg.startTimestamp = T0 /\ agg.endTimestamp = T0 + 4 * Hour
    /\ { r.timestamp : r \in AggLoaded } = { T0, T0 + 3 * Hour }
    /\ [ k \in 1..Len(agg.results) |-> agg.results[k].tvlEth ]
            = << 100, 100, 100, 150, 150 >>

\* C20: the running values of a cumulative series start from the first
\* loaded row when its timestamp is the hour-truncated startAt, otherwise
\* from the latest snapshot strictly before startAt, and from zero when
\* there is none.
C20_CumulativeSeed ==
    (agg.pc # "idle" /\ agg.variant = "cumulative") =>
        \A f \in AggFields(agg.fn) :
            agg.seed[f] =
                IF AggLoaded # {} /\ Earliest(AggLoaded).timestamp = agg.startTimestamp
                    THEN Earliest(AggLoaded)[f]
                ELSE IF AggPrior # {} THEN Latest(AggPrior)[f]
                ELSE 0

C20_Witness ==
    /\ agg.pc = "done" /\ agg.variant = "cumulative"
    /\ agg.fn = TvlBeacon
    /\ agg.startTimestamp = T0 + 2 * Hour
    /\ AggLoaded # {}
    /\ Cardinality(AggPrior) >= 2
    /\ agg.seed.tvlEth = Latest(AggPrior).tvlEth
    /\ agg.results[1].tvlEth = agg.seed.tvlEth

\* the delta field that goes with a field of a point
DeltaField(f) ==
    CASE f = "tvlEth" -> "changeTvlEth"
      [] f = "totalStakers" -> "changeStakers"
      [] f = "totalOperators" -> "changeOperators"

\* the sum of one field over a set of rows
RECURSIVE SetSum(_, _)
SetSum(rows, field) ==
    IF rows = {} THEN 0
    ELSE LET r == CHOOSE r \in rows : TRUE
         IN r[field] + SetSum(rows \ {r}, field)

\* the rows loaded for the window whose timestamp lies in the k-th bucket
BucketRows(k) ==
    { r \in AggLoaded :
        /\ r.timestamp >= agg.results[k].timestamp
        /\ r.timestamp < agg.results[k].timestamp + getOffsetInMs(agg.frequency) }

\* C21: in a discrete series every bucket's value is the sum of the delta
\* fields of exactly the rows (loaded for the window) whose timestamp lies in
\* [bucketStart, bucketEnd), whatever the previous bucket's value was; a
\* window without rows gives zero in every bucket.
C21_DiscreteBucketSum ==
    (agg.pc # "idle" /\ agg.variant = "discrete") =>
        /\ \A k \in 1..Len(agg.results) : \A f \in AggFields(agg.fn) :
                agg.results[k][f] = SetSum(BucketRows(k), DeltaField(f))
        /\ AggLoaded = {} =>
                \A k \in 1..Len(agg.results) : \A f \in AggFields(agg.fn) :
                    agg.results[k][f] = 0

C21_Witness ==
    /\ agg.pc = "done" /\ agg.variant = "discrete"
    /\ agg.fn = AvsAggregate /\ agg.frequency = "1d"
    /\ Len(agg.results) = 2
    /\ Cardinality(BucketRows(1)) = 3
    /\ agg.results[1].tvlEth = 10 + 12 + 15
    /\ agg.results[2].tvlEth = 0

\* C22: a cumulative series over a window without snapshot rows is constant:
\* every bucket has the value of the latest snapshot strictly before
\* startAt, or zero when there is none.
C22_EmptyWindowConstant ==
    (agg.pc # "idle" /\ agg.variant = "cumulative" /\ AggLoaded = {}) =>
        \A k \in 1..Len(agg.results) : \A f \in AggFields(agg.fn) :
            agg.results[k][f] = IF AggPrior # {} THEN Latest(AggPrior)[f] ELSE 0

C22_Witness ==
    /\ agg.pc = "done" /\ agg.variant = "cumulative"
    /\ agg.fn = TvlBeacon /\ agg.frequency = "1h"
    /\ AggLoaded = {}
    /\ Cardinality(AggPrior) >= 2
    /\ Len(agg.results) >= 3
    /\ agg.results[3].tvlEth = 120


\* the points a walk from startTimestamp to endTimestamp emits: one at the
\* start and one per whole offset that fits in the window
FloorPoints(startTimestamp, endTimestamp, offset) ==
    (endTimestamp - startTimestamp) \div offset + 1

CeilPoints(startTimestamp, endTimestamp, offset) ==
    (endTimestamp - startTimestamp + offset - 1) \div offset + 1

\* C23 as stated: a finished series of doGetHistoricalTvlBeacon and of
\* doGetHistoricalCount has ceil((endAt - startAt) / offset) + 1 points
C23_CeilPoints ==
    /\ (agg.pc = "done" /\ agg.fn = TvlBeacon) =>
            Len(agg.results) = CeilPoints(agg.startTimestamp, agg.endTimestamp,
                                          getOffsetInMs(agg.frequency))
    /\ cnt.pc = "done" =>
            Len(cnt.results) = CeilPoints(cnt.startDate, cnt.endDate,
                                          TimeIntervalOf(cnt.frequency))

\* C23: for every hour-truncated window and every frequency, a finished
\* series of doGetHistoricalTvlBeacon and of doGetHistoricalCount has
\* floor((endAt - startAt) / offset) + 1 points, the k-th at
\* startAt + (k - 1) * offset; a frequency outside 1h, 1d, 7d walks by the hour
C23_FloorPoints ==
    /\ (agg.pc = "done" /\ agg.fn = TvlBeacon) =>
        /\ Len(agg.results) = FloorPoints(agg.startTimestamp, agg.endTimestamp,
                                          getOffsetInMs(agg.frequency))
        /\ \A k \in 1..Len(agg.results) :
                agg.results[k].timestamp =
                    agg.startTimestamp + (k - 1) * getOffsetInMs(agg.frequency)
    /\ cnt.pc = "done" =>
        /\ Len(cnt.results) = FloorPoints(cnt.startDate, cnt.endDate,
                                          TimeIntervalOf(cnt.frequency))
        /\ \A k \in 1..Len(cnt.results) :
                cnt.results[k].timestamp =
                    cnt.startDate + (k - 1) * TimeIntervalOf(cnt.frequency)
    /\ getOffsetInMs("1w") = Hour /\ TimeIntervalOf("1w") = Hour

\* a four-hour window walked by the day: one point, where the ceiling
\* gives two
C23_Witness ==
    /\ cnt.pc = "done" /\ cnt.frequency = "1d"
    /\ cnt.endDate - cnt.startDate = 4 * Hour
    /\ Len(cnt.results) = 1


\* ---------------------------------------------------------------------
\* The point-in-time TVL functions: doGetTvlBeaconChain, doGetTvlRestaking
\* and calculateTvlChanges, each call explored on its own.
\* ---------------------------------------------------------------------

\* a JavaScript value of the arithmetic: a number, undefined or NaN
Num(v) == [ kind |-> "number", value |-> v ]
NoValue == [ kind |-> "undefined", value |-> 0 ]
NaN == [ kind |-> "NaN", value |-> 0 ]

\* a - b
Minus(a, b) ==
    IF a.kind = "number" /\ b.kind = "number" THEN Num(a.value - b.value) ELSE NaN

\* a / b for b other than 0, kept as the fraction num / den
Quotient(a, b) ==
    IF a.kind = "number" /\ b.kind = "number"
        THEN [ kind |-> "number", num |-> a.value, den |-> b.value ]
        ELSE [ kind |-> "NaN", num |-> 0, den |-> 1 ]

\* offset === 0 ? 0 : (current - offset) / offset
PercentUnguarded(current, offset) == Quotient(Minus(current, offset), offset)

Percent(current, offset) ==
    IF offset.kind = "number" /\ offset.value = 0
        THEN [ kind |-> "number", num |-> 0, den |-> 1 ]
        ELSE Quotient(Minus(current, offset), offset)

\* calculateTvlChanges, lines 1651-1668
calculateTvlChanges(currentTvl, tvl24hOffset, tvl7dOffset) ==
    [ tvl |-> currentTvl,
      change24h |-> [ value |-> Minus(currentTvl, tvl24hOffset),
                      percent |-> Percent(currentTvl, tvl24hOffset) ],
      change7d |-> [ value |-> Minus(currentTvl, tvl7dOffset),
                     percent |-> Percent(currentTvl, tvl7dOffset) ] ]

\* getTimestamp(offset) at the time now, lines 1598-1611
getTimestamp(offset, now) ==
    CASE offset = "24h" -> now - 24 * Hour
      [] offset = "7d" -> now - 7 * Day
      [] OTHER -> now

timeOffsets == << "", "24h", "7d" >>

\* OR: timeOffsets.map((tf) => ({ timestamp: { lte: getTimestamp(tf) } }))
AtOrBeforeSomeOffset(timestamp, now) ==
    \E i \in 1..Len(timeOffsets) : timestamp <= getTimestamp(timeOffsets[i], now)

\* orderBy: { timestamp: 'desc' }
RECURSIVE OrderByTimestampDesc(_)
OrderByTimestampDesc(rows) ==
    IF rows = {} THEN << >>
    ELSE LET r == CHOOSE r \in rows : \A q \in rows : r.timestamp >= q.timestamp
         IN << r >> \o OrderByTimestampDesc(rows \ {r})

\* take: n
Take(records, n) == SubSeq(records, 1, IF Len(records) < n THEN Len(records) ELSE n)

\* const [a, b, c] = values: the i-th element, undefined past the end
Destructure(values, i) == IF i <= Len(values) THEN values[i] ELSE NoValue

\* doGetTvlBeaconChain, lines 833-851: the three values handed to
\* calculateTvlChanges
BeaconChainInputs(table, now) ==
    LET beaconRecords ==
            Take(OrderByTimestampDesc(
                    { r \in table : AtOrBeforeSomeOffset(r.timestamp, now) }), 3)
        values == [ i \in 1..Len(beaconRecords) |-> Num(beaconRecords[i].tvlEth) ]
    IN [ currentTvl |-> Destructure(values, 1),
         tvl24hOffset |-> Destructure(values, 2),
         tvl7dOffset |-> Destructure(values, 3) ]

\* strategy ? { strategyAddress: strategy } : {}
NoStrategy == << >>
StrategyMatches(row, strategy) ==
    strategy = NoStrategy \/ row.strategyAddress = strategy

\* fetchLatestStrategyData, lines 782-796: groupBy strategyAddress with
\* _max timestamp; a function from the strategies found to that maximum
ExactTimestamps(table, strategy, now) ==
    LET rows == { r \in table : /\ StrategyMatches(r, strategy)
                                /\ AtOrBeforeSomeOffset(r.timestamp, now) }
    IN [ a \in { r.strategyAddress : r \in rows } |->
            LET own == { r \in rows : r.strategyAddress = a }
            IN (CHOOSE r \in own : \A q \in own : r.timestamp >= q.timestamp).timestamp ]

\* fetchLatestStrategyData, lines 798-823: the records of each strategy,
\* latest first
fetchLatestStrategyData(table, strategy, now) ==
    LET exactTimestamps == ExactTimestamps(table, strategy, now)
    IN [ a \in DOMAIN exactTimestamps |->
            OrderByTimestampDesc(
                { r \in table :
                    /\ r.strategyAddress = a
                    /\ \E i \in 1..Len(timeOffsets) :
                        /\ r.timestamp <= getTimestamp(timeOffsets[i], now)
                        /\ r.timestamp >= exactTimestamps[a] }) ]

\* the sum of values[a] over the a of a set
RECURSIVE TotalOf(_, _)
TotalOf(addresses, values) ==
    IF addresses = {} THEN 0
    ELSE LET a == CHOOSE a \in addresses : TRUE
         IN values[a] + TotalOf(addresses \ {a}, values)

\* strategyPriceMap.get(strategyAddress) || 0
StrategyPrice(strategyPriceMap, strategyAddress) ==
    IF strategyAddress \in DOMAIN strategyPriceMap
        THEN strategyPriceMap[strategyAddress] ELSE 0

\* doGetTvlRestaking, lines 742-768: the reduce over the strategies; the
\* record at index - 1 of a strategy is added to the total of that index
RestakingTotal(strategyRecords, strategyPriceMap, includeBeaconInTvl, index) ==
    LET counted == { a \in DOMAIN strategyRecords :
                        /\ includeBeaconInTvl \/ a # beaconAddress
                        /\ Len(strategyRecords[a]) >= index }
    IN TotalOf(counted,
               [ a \in counted |-> strategyRecords[a][index].tvl
                                    * StrategyPrice(strategyPriceMap, a) ])

\* doGetTvlRestaking: the three totals handed to calculateTvlChanges
RestakingInputs(table, strategyPriceMap, includeBeaconInTvl, strategy, now) ==
    LET strategyRecords == fetchLatestStrategyData(table, strategy, now)
    IN [ currentTvl |->
            Num(RestakingTotal(strategyRecords, strategyPriceMap,
                               includeBeaconInTvl, 1)),
         tvl24hOffset |->
            Num(RestakingTotal(strategyRecords, strategyPriceMap,
                               includeBeaconInTvl, 2)),
         tvl7dOffset |->
            Num(RestakingTotal(strategyRecords, strategyPriceMap,
                               includeBeaconInTvl, 3)) ]

\* tvlStrategies and tvlStrategiesEth of doGetTvlRestaking, lines 753-755
TvlStrategies(table, strategy, now) ==
    LET strategyRecords == fetchLatestStrategyData(table, strategy, now)
    IN [ a \in DOMAIN strategyRecords |-> strategyRecords[a][1].tvl ]

TvlStrategiesEth(table, strategyPriceMap, strategy, now) ==
    LET strategyRecords == fetchLatestStrategyData(table, strategy, now)
    IN [ a \in DOMAIN strategyRecords |->
            strategyRecords[a][1].tvl * StrategyPrice(strategyPriceMap, a) ]

\* the calls explored
TvlBeaconChain == "doGetTvlBeaconChain"
TvlRestaking == "doGetTvlRestaking"
TvlChanges == "calculateTvlChanges"

PointNows == { T0 + 3 * Hour + 1800000, T0 + 24 * Hour + 1800000,
               T0 + 7 * Day + 1800000 }
PointValues == { 0, 90, 100, 110 }
PointStrategies == { NoStrategy, << "0", "x", "a", "1" >> }

\* what fetchCurrentEthPrices returned: a price per strategy, none for a2
\* in the second map
PointPriceMaps ==
    { [ a \in { << "0", "x", "a", "1" >>, << "0", "x", "a", "2" >>, beaconAddress }
            |-> IF a = beaconAddress THEN 1 ELSE 2 ],
      [ a \in { << "0", "x", "a", "1" >>, beaconAddress } |-> 1 ] }

PointInit ==
    /\ LoopIdle
    /\ head = 1 /\ db = BulkDb
    /\ pods = PodsIdle /\ podsObs = ObsInit /\ ops = OpsIdle /\ opsObs = ObsInit
    /\ bulk = BulkIdle /\ sync = SyncIdle /\ agg = AggIdle
    /\ cnt = CountIdle /\ total = TotalIdle /\ fetch = FetchIdle
    /\ \E rows \in SUBSET MetricCandidates : metrics = MetricTables(rows)
    /\ point = PointIdle

pointRest ==
    <<loopVars, head, db, pods, podsObs, ops, opsObs, bulk, sync, metrics,
      agg, cnt, total, fetch>>

\* a call of calculateTvlChanges
PointChanges(currentTvl, tvl24hOffset, tvl7dOffset) ==
    /\ point.pc = "idle"
    /\ LET inputs == [ currentTvl |-> Num(currentTvl),
                       tvl24hOffset |-> Num(tvl24hOffset),
                       tvl7dOffset |-> Num(tvl7dOffset) ]
       IN point' = [ pc |-> "done", fn |-> TvlChanges, inputs |-> inputs,
                     result |-> calculateTvlChanges(inputs.currentTvl,
                                    inputs.tvl24hOffset, inputs.tvl7dOffset) ]
    /\ UNCHANGED pointRest

\* a call of doGetTvlBeaconChain at the time now
PointBeaconChain(now) ==
    /\ point.pc = "idle"
    /\ LET inputs == BeaconChainInputs(metrics.metricEigenPodsHourly, now)
       IN point' = [ pc |-> "done", fn |-> TvlBeaconChain, now |-> now,
                     inputs |-> inputs,
                     result |-> calculateTvlChanges(inputs.currentTvl,
                                    inputs.tvl24hOffset, inputs.tvl7dOffset) ]
    /\ UNCHANGED pointRest

\* a call of doGetTvlRestaking(includeBeaconInTvl, strategy) at the time now
PointRestaking(includeBeaconInTvl, strategy, strategyPriceMap, now) ==
    /\ point.pc = "idle"
    /\ LET inputs == RestakingInputs(metrics.metricStrategyHourly,
                        strategyPriceMap, includeBeaconInTvl, strategy, now)
       IN point' = [ pc |-> "done", fn |-> TvlRestaking, now |-> now,
                     includeBeaconInTvl |-> includeBeaconInTvl,
                     strategy |-> strategy,
                     strategyPriceMap |-> strategyPriceMap,
                     inputs |-> inputs,
                     result |-> calculateTvlChanges(inputs.currentTvl,
                                    inputs.tvl24hOffset, inputs.tvl7dOffset),
                     tvlStrategies |->
                        TvlStrategies(metrics.metricStrategyHourly, strategy, now),
                     tvlStrategiesEth |->
                        TvlStrategiesEth(metrics.metricStrategyHourly,
                                         strategyPriceMap, strategy, now) ]
    /\ UNCHANGED pointRest

NextPoint ==
    \/ \E currentTvl \in PointValues, tvl24hOffset \in PointValues,
          tvl7dOffset \in PointValues :
            PointChanges(currentTvl, tvl24hOffset, tvl7dOffset)
    \/ \E now \in PointNows : PointBeaconChain(now)
    \/ \E includeBeaconInTvl \in BOOLEAN, strategy \in PointStrategies,
          strategyPriceMap \in PointPriceMaps, now \in PointNows :
            PointRestaking(includeBeaconInTvl, strategy, strategyPriceMap, now)

SpecPoint == PointInit /\ [][NextPoint]_vars

\* value is current - offset, and percent is (current - offset) / offset,
\* exactly 0 when offset is 0
ChangeOf(change, current, offset) ==
    /\ change.value = Num(current - offset)
    /\ change.percent.kind = "number"
    /\ IF offset = 0 THEN change.percent.num = 0
       ELSE change.percent.num * offset = (current - offset) * change.percent.den

\* C24: whenever calculateTvlChanges is handed three numbers, each change
\* has value = current - offset and percent = (current - offset) / offset,
\* with percent exactly 0 when the offset is 0; current 110 over offset
\* 100 gives value 10 and percent 0.1
C24_TvlChanges ==
    /\ (point.pc = "done" /\ \A f \in DOMAIN point.inputs :
                                point.inputs[f].kind = "number") =>
        /\ point.result.tvl = point.inputs.currentTvl
        /\ ChangeOf(point.result.change24h, point.inputs.currentTvl.value,
                    point.inputs.tvl24hOffset.value)
        /\ ChangeOf(point.result.change7d, point.inputs.currentTvl.value,
                    point.inputs.tvl7dOffset.value)
    /\ LET change == calculateTvlChanges(Num(110), Num(100), Num(100)).change24h
       IN change.value = Num(10) /\ change.percent.num * 10 = change.percent.den

\* a 24h offset of 100 under a current value of 110, and a 7d offset of 0
C24_Witness ==
    /\ point.pc = "done" /\ point.fn = TvlChanges
    /\ point.inputs.currentTvl = Num(110)
    /\ point.inputs.tvl24hOffset = Num(100)
    /\ point.inputs.tvl7dOffset = Num(0)
    /\ point.result.change24h.value = Num(10)
    /\ point.result.change7d.percent.num = 0


\* the rows of a table at or before a time, and the latest of them
AtOrBefore(table, timestamp) == { r \in table : r.timestamp <= timestamp }
LatestAtOrBefore(table, timestamp) ==
    CHOOSE r \in AtOrBefore(table, timestamp) :
        \A q \in AtOrBefore(table, timestamp) : r.timestamp >= q.timestamp

\* the total over the counted strategies of the TVL of the latest row of
\* each at or before a time
RestakingAtOrBefore(table, strategyPriceMap, includeBeaconInTvl, strategy, timestamp) ==
    LET rows == { r \in AtOrBefore(table, timestamp) :
                    /\ StrategyMatches(r, strategy)
                    /\ includeBeaconInTvl \/ r.strategyAddress # beaconAddress }
        counted == { r.strategyAddress : r \in rows }
    IN TotalOf(counted,
               [ a \in counted |->
                    LatestAtOrBefore({ r \in rows : r.strategyAddress = a },
                                     timestamp).tvl
                        * StrategyPrice(strategyPriceMap, a) ])

\* C25, doGetTvlBeaconChain: each input is the TVL of the latest row at or
\* before now, now - 24h and now - 7d, whenever there is such a row
C25_BeaconChainLatest ==
    (point.pc = "done" /\ point.fn = TvlBeaconChain) =>
        LET table == metrics.metricEigenPodsHourly
            Input(i) == CASE i = 1 -> point.inputs.currentTvl
                          [] i = 2 -> point.inputs.tvl24hOffset
                          [] i = 3 -> point.inputs.tvl7dOffset
        IN \A i \in 1..3 :
            AtOrBefore(table, getTimestamp(timeOffsets[i], point.now)) # {} =>
                Input(i) = Num(LatestAtOrBefore(table,
                                getTimestamp(timeOffsets[i], point.now)).tvlEth)

\* C25, doGetTvlRestaking: each input is the total over the strategies of
\* the latest row at or before now, now - 24h and now - 7d
C25_RestakingLatest ==
    (point.pc = "done" /\ point.fn = TvlRestaking) =>
        LET table == metrics.metricStrategyHourly
            Input(i) == CASE i = 1 -> point.inputs.currentTvl
                          [] i = 2 -> point.inputs.tvl24hOffset
                          [] i = 3 -> point.inputs.tvl7dOffset
        IN \A i \in 1..3 :
            Input(i) = Num(RestakingAtOrBefore(table, point.strategyPriceMap,
                            point.includeBeaconInTvl, point.strategy,
                            getTimestamp(timeOffsets[i], point.now)))

\* C25 as stated: both point-in-time functions take as current value the
\* latest row at or before now, as 24h offset the latest row at or before
\* now - 24h, and as 7d offset the latest row at or before now - 7d
C25_LatestAtOrBefore == C25_BeaconChainLatest /\ C25_RestakingLatest

\* what the code takes instead: doGetTvlBeaconChain the three latest rows
\* at or before now, doGetTvlRestaking the latest row and offsets of 0
C25_ThreeLatestRows ==
    /\ (point.pc = "done" /\ point.fn = TvlBeaconChain) =>
        LET rows == OrderByTimestampDesc(
                        AtOrBefore(metrics.metricEigenPodsHourly, point.now))
        IN /\ Len(rows) >= 1 => point.inputs.currentTvl = Num(rows[1].tvlEth)
           /\ Len(rows) >= 2 => point.inputs.tvl24hOffset = Num(rows[2].tvlEth)
           /\ Len(rows) >= 3 => point.inputs.tvl7dOffset = Num(rows[3].tvlEth)
           /\ Len(rows) < 3 => point.inputs.tvl7dOffset = NoValue
    /\ (point.pc = "done" /\ point.fn = TvlRestaking) =>
        /\ point.inputs.tvl24hOffset = Num(0)
        /\ point.inputs.tvl7dOffset = Num(0)
        /\ point.inputs.currentTvl =
                Num(RestakingAtOrBefore(metrics.metricStrategyHourly,
                        point.strategyPriceMap, point.includeBeaconInTvl,
                        point.strategy, point.now))


\* ---------------------------------------------------------------------
\* The combining step of doGetHistoricalTvlTotal (lines 1043-1056), applied
\* to a beacon-chain series and a restaking series.
\* ---------------------------------------------------------------------

MaxPoints == 2

\* the series explored: up to MaxPoints points of two timestamps and two
\* values
TotalPoints == [ timestamp : { T0, T0 + Hour }, tvlEth : { 1, 2 } ]
TotalSeries == UNION { [ 1..n -> TotalPoints ] : n \in 0..MaxPoints }

TotalInit ==
    /\ LoopIdle
    /\ head = 1 /\ db = BulkDb
    /\ pods = PodsIdle /\ podsObs = ObsInit /\ ops = OpsIdle /\ opsObs = ObsInit
    /\ bulk = BulkIdle /\ sync = SyncIdle /\ metrics = {} /\ agg = AggIdle
    /\ cnt = CountIdle /\ point = PointIdle /\ fetch = FetchIdle
    /\ \E beaconTvl \in TotalSeries, restakingTvl \in TotalSeries :
            total = [ pc |-> "map", beaconTvl |-> beaconTvl,
                      restakingTvl |-> restakingTvl, index |-> 0,
                      results |-> << >> ]

totalRest ==
    <<loopVars, head, db, pods, podsObs, ops, opsObs, bulk, sync, metrics,
      agg, cnt, point, fetch>>

\* !restakingEntry || beaconEntry.timestamp !== restakingEntry.timestamp,
\* for the entries at index (counted from 0)
EntryMismatch(beaconTvl, restakingTvl, index) ==
    IF index + 1 > Len(restakingTvl) THEN TRUE
    ELSE beaconTvl[index + 1].timestamp # restakingTvl[index + 1].timestamp

\* the callback of beaconTvl.map returns the sum of the two entries
TotalEntry ==
    /\ total.pc = "map" /\ total.index < Len(total.beaconTvl)
    /\ ~EntryMismatch(total.beaconTvl, total.restakingTvl, total.index)
    /\ total' = [ total EXCEPT
                    !.index = @ + 1,
                    !.results = Append(@,
                        [ timestamp |-> total.beaconTvl[total.index + 1].timestamp,
                          tvlEth |-> total.beaconTvl[total.index + 1].tvlEth
                                     + total.restakingTvl[total.index + 1].tvlEth ]) ]
    /\ UNCHANGED totalRest

\* the callback throws 'Mismatch in historical data at index ...'
TotalMismatch ==
    /\ total.pc = "map" /\ total.index < Len(total.beaconTvl)
    /\ EntryMismatch(total.beaconTvl, total.restakingTvl, total.index)
    /\ total' = [ total EXCEPT !.pc = "failed" ]
    /\ UNCHANGED totalRest

\* beaconTvl.map is through: results is returned
TotalReturn ==
    /\ total.pc = "map" /\ total.index >= Len(total.beaconTvl)
    /\ total' = [ total EXCEPT !.pc = "done" ]
    /\ UNCHANGED totalRest

NextTotal == TotalEntry \/ TotalMismatch \/ TotalReturn

SpecTotal == TotalInit /\ [][NextTotal]_vars

\* the two series have the same length and the same timestamp at every index
Aligned(beaconTvl, restakingTvl) ==
    /\ Len(beaconTvl) = Len(restakingTvl)
    /\ \A i \in 1..Len(beaconTvl) :
            beaconTvl[i].timestamp = restakingTvl[i].timestamp

C26_PrefixAligned ==
    /\ total.pc = "done" =>
        /\ Len(total.restakingTvl) >= Len(total.beaconTvl)
        /\ Len(total.results) = Len(total.beaconTvl)
        /\ \A i \in 1..Len(total.beaconTvl) :
            /\ total.beaconTvl[i].timestamp = total.restakingTvl[i].timestamp
            /\ total.results[i].tvlEth =
                    total.beaconTvl[i].tvlEth + total.restakingTvl[i].tvlEth
    /\ total.pc = "failed" =>
        \E i \in 1..Len(total.beaconTvl) :
            \/ i > Len(total.restakingTvl)
            \/ total.beaconTvl[i].timestamp # total.restakingTvl[i].timestamp


\* the part of the store that belongs to each stream: its cursor and its
\* destination tables
PodsPart(d) ==
    [ cursor |-> d.settings[blockSyncKey], pod |-> d.pod,
      validatorRestake |-> d.validatorRestake ]
OpsPart(d) ==
    [ cursor |-> d.settings[blockSyncKeyLogs], increased |-> d.increased,
      decreased |-> d.decreased ]

\* the store with the part of one stream emptied
WithoutOps(d) ==
    [ d EXCEPT !.settings[blockSyncKeyLogs] = NoRow,
               !.increased = << >>, !.decreased = << >> ]
WithoutPods(d) ==
    [ d EXCEPT !.settings[blockSyncKey] = NoRow,
               !.pod = << >>, !.validatorRestake = {} ]

\* a step of seedPods leaves the other stream's part alone, reads its
\* cursor and writes its part as it would over a store without that part
PodsStepIndependent ==
    /\ OpsPart(db') = OpsPart(db)
    /\ (pods'.runs # pods.runs /\ podsObs'.fromCursor) =>
            pods'.firstBlock = fetchLastSyncBlock(WithoutOps(db), blockSyncKey)
    /\ db' # db =>
        \/ /\ pods.i <= NumChunks(pods.dbTransactions)
           /\ PodsPart(db') =
                PodsPart(Transaction(WithoutOps(db),
                            Chunk(pods.dbTransactions, pods.i), << >>, << >>))
        \/ /\ pods.i > NumChunks(pods.dbTransactions)
           /\ PodsPart(db') =
                PodsPart(SettingsUpsert(WithoutOps(db), blockSyncKey,
                                        NumberOf(pods.lastBlock)))

OpsStepIndependent ==
    /\ PodsPart(db') = PodsPart(db)
    /\ (ops'.runs # ops.runs /\ opsObs'.fromCursor) =>
            ops'.firstBlock = fetchLastSyncBlock(WithoutPods(db), blockSyncKeyLogs)
    /\ db' # db =>
            OpsPart(db') =
                OpsPart(Transaction(WithoutPods(db),
                            Chunk(ops.dbTransactions, ops.i),
                            ops.logsOperatorSharesIncreased,
                            ops.logsOperatorSharesDecreased))

\* C27: in every interleaving of seedPods and seedLogsOperatorShares runs,
\* each step of a run leaves the other stream's cursor and tables as they
\* are, and what it reads and writes of its own part is what it would
\* read and write were the other stream's part empty; so the store the
\* interleaving ends in is the one the two runs leave when run one after
\* the other, in either order
C27_StreamsIndependent ==
    [][ /\ pods' # pods => PodsStepIndependent
        /\ ops' # ops => OpsStepIndependent ]_vars

\* both runs under way at once: seedPods has read a batch of logs and not
\* yet written, seedLogsOperatorShares has committed rows and is writing
C27_Witness ==
    /\ pods.pc = "loop" /\ Len(pods.podList) > 0
    /\ ops.pc = "write" /\ Len(db.increased) > 0
    /\ db.settings[blockSyncKeyLogs] # NoRow /\ db.settings[blockSyncKey] = NoRow


\* C28: a step in which an RPC call of a batch fails (getLogs or getBlock
\* in seedPods, getLogs in seedLogsOperatorShares) leaves the whole store
\* as it was when the batch began and queues nothing of that batch: the
\* pending rows and operations of the run are unchanged, and seedPods ends
\* without writing
C28_FailedRpcNoSideEffects ==
    [][ /\ (pods'.runs = pods.runs /\ podsObs'.failedFrom # podsObs.failedFrom) =>
            /\ db' = db
            /\ pods'.podList = pods.podList
            /\ pods'.dbTransactions = pods.dbTransactions
            /\ pods'.pc = "failed"
        /\ (ops'.runs = ops.runs /\ opsObs'.failedFrom # opsObs.failedFrom) =>
            /\ db' = db
            /\ ops'.logsOperatorSharesIncreased = ops.logsOperatorSharesIncreased
            /\ ops'.logsOperatorSharesDecreased = ops.logsOperatorSharesDecreased
            /\ ops'.dbTransactions = ops.dbTransactions ]_vars

\* the second batch of a run of seedLogsOperatorShares failed on getLogs
\* after the first had stored its rows, which are still there
C28_Witness ==
    /\ ops.pc = "loop" /\ opsObs.failedFrom # {}
    /\ Len(opsObs.batches) > 0 /\ Len(db.increased) > 0
    /\ \A f \in opsObs.failedFrom :
            \A i \in 1..Len(db.increased) : db.increased[i].blockNumber <= f


\* C29 as stated: in one batch seedPods calls getBlock at most once for
\* each block number
C29_OneGetBlockPerBlock ==
    \A i, j \in 1..Len(podsObs.getBlock) :
        i # j => podsObs.getBlock[i] # podsObs.getBlock[j]

\* what the code does: one getBlock call for every log of the batch
C29_OneGetBlockPerLog ==
    [][ (pods'.runs = pods.runs /\ Len(podsObs'.batches) > Len(podsObs.batches)) =>
            Len(podsObs'.getBlock) = Len(pods'.podList) - Len(pods.podList) ]_vars


\* ---------------------------------------------------------------------
\* fetchWithTimeout (seeder.ts:152-170): the request, the timer that
\* aborts it, and the continuation that settles the call.
\* ---------------------------------------------------------------------

MaxTimeoutTicks == 2

\* the time between two looks at the clock, in milliseconds
FetchTickMs == 1000

\* `timeout = 5000`: the default applies when the argument is omitted
Omitted == -1
TimeoutOf(timeout) == IF timeout = Omitted THEN 5000 ELSE timeout

\* the calls explored, and what the network may answer
FetchUrls == { "https://a", "https://b" }
FetchTimeouts == { Omitted } \cup { k * FetchTickMs : k \in 0..MaxTimeoutTicks }
FetchResponses == { [ status |-> 200 ], [ status |-> 404 ], [ status |-> 500 ] }
FetchErrors == { [ name |-> "TypeError", message |-> "fetch failed" ],
                 [ name |-> "Error", message |-> "socket hang up" ] }

\* what controller.abort() makes fetch reject with
AbortError == [ name |-> "AbortError", message |-> "This operation was aborted" ]

\* catch (error): an AbortError becomes new Error('Request timed out'),
\* any other error is thrown again as it is
Caught(error) ==
    IF error.name = "AbortError"
        THEN [ name |-> "Error", message |-> "Request timed out" ]
        ELSE error

\* finally { clearTimeout(timeoutId) }
clearTimeoutNoop(timer) == timer

clearTimeout(timer) == IF timer = "armed" THEN "cleared" ELSE timer

FetchInit ==
    /\ LoopIdle
    /\ head = 1 /\ db = BulkDb
    /\ pods = PodsIdle /\ podsObs = ObsInit /\ ops = OpsIdle /\ opsObs = ObsInit
    /\ bulk = BulkIdle /\ sync = SyncIdle /\ metrics = {} /\ agg = AggIdle
    /\ cnt = CountIdle /\ point = PointIdle /\ total = TotalIdle
    /\ fetch = FetchIdle

fetchRest ==
    <<loopVars, head, db, pods, podsObs, ops, opsObs, bulk, sync, metrics,
      agg, cnt, point, total>>

\* lines 156-160: the controller is made, the timer is set, fetch is
\* called and awaited
FetchCall(url, timeout) ==
    /\ fetch.pc = "idle"
    /\ fetch' = [ pc |-> "awaiting", url |-> url, timeout |-> timeout,
                  due |-> TimeoutOf(timeout), clock |-> 0,
                  timer |-> "armed", aborted |-> FALSE,
                  promise |-> [ state |-> "pending" ],
                  outcome |-> [ kind |-> "none" ],
                  settles |-> 0, abortedWhen |-> "never" ]
    /\ UNCHANGED fetchRest

\* time passes, while the call waits and after it has settled
FetchTick ==
    /\ fetch.pc \in { "awaiting", "settled" }
    /\ fetch.clock < fetch.due
    /\ fetch' = [ fetch EXCEPT !.clock = @ + FetchTickMs ]
    /\ UNCHANGED fetchRest

\* the response arrives: the promise of fetch is fulfilled
FetchResponds(response) ==
    /\ fetch.pc = "awaiting" /\ fetch.promise.state = "pending"
    /\ fetch' = [ fetch EXCEPT
                    !.pc = "settling",
                    !.promise = [ state |-> "fulfilled", response |-> response ] ]
    /\ UNCHANGED fetchRest

\* the request fails: the promise of fetch is rejected
FetchRejects(error) ==
    /\ fetch.pc = "awaiting" /\ fetch.promise.state = "pending"
    /\ fetch' = [ fetch EXCEPT
                    !.pc = "settling",
                    !.promise = [ state |-> "rejected", error |-> error ] ]
    /\ UNCHANGED fetchRest

\* line 157: the timer is due and runs controller.abort(); a pending
\* request is rejected with an AbortError.  A timer runs as a task of its
\* own, never between the settling of a promise and its continuation.
FetchTimerFires ==
    /\ fetch.pc \in { "awaiting", "settled" }
    /\ fetch.timer = "armed" /\ fetch.clock >= fetch.due
    /\ fetch' = [ fetch EXCEPT
                    !.timer = "fired",
                    !.aborted = TRUE,
                    !.abortedWhen = fetch.pc,
                    !.pc = IF fetch.pc = "awaiting" THEN "settling" ELSE @,
                    !.promise = IF fetch.pc = "awaiting"
                                    THEN [ state |-> "rejected", error |-> AbortError ]
                                    ELSE @ ]
    /\ UNCHANGED fetchRest

\* lines 159-169: the await ends; the response is returned or the error
\* caught and thrown, and finally clears the timer
FetchSettle ==
    /\ fetch.pc = "settling"
    /\ fetch' = [ fetch EXCEPT
                    !.pc = "settled",
                    !.outcome =
                        IF fetch.promise.state = "fulfilled"
                            THEN [ kind |-> "returned",
                                   response |-> fetch.promise.response ]
                            ELSE [ kind |-> "thrown",
                                   error |-> Caught(fetch.promise.error) ],
                    !.timer = clearTimeout(@),
                    !.settles = @ + 1 ]
    /\ UNCHANGED fetchRest

NextFetch ==
    \/ \E url \in FetchUrls, timeout \in FetchTimeouts : FetchCall(url, timeout)
    \/ FetchTick
    \/ \E response \in FetchResponses : FetchResponds(response)
    \/ \E error \in FetchErrors : FetchRejects(error)
    \/ FetchTimerFires
    \/ FetchSettle

SpecFetch == FetchInit /\ [][NextFetch]_vars

\* C30: a call of fetchWithTimeout settles once; it fails with 'Request
\* timed out' exactly when the timer ran out and aborted the pending
\* request, which happens no sooner than the timeout; a response or an
\* error that arrived first is returned or thrown as it is; and once the
\* call has settled the timer is no longer armed and never aborts
C30_SettlesOnce ==
    fetch.pc # "idle" =>
        /\ fetch.settles <= 1
        /\ fetch.settles = 1 <=> fetch.pc = "settled"
        /\ fetch.aborted => /\ fetch.abortedWhen = "awaiting"
                            /\ fetch.clock >= TimeoutOf(fetch.timeout)
        /\ fetch.pc = "settled" =>
            /\ fetch.timer # "armed"
            /\ fetch.aborted <=>
                    fetch.outcome = [ kind |-> "thrown",
                                      error |-> [ name |-> "Error",
                                                  message |-> "Request timed out" ] ]
            /\ ~fetch.aborted =>
                \/ /\ fetch.promise.state = "fulfilled"
                   /\ fetch.outcome = [ kind |-> "returned",
                                        response |-> fetch.promise.response ]
                \/ /\ fetch.promise.state = "rejected"
                   /\ fetch.outcome = [ kind |-> "thrown",
                                        error |-> fetch.promise.error ]

\* a call with the default timeout that got its response after two
\* seconds, and whose timer has stayed quiet until past the five seconds
C30_Witness ==
    /\ fetch.pc = "settled" /\ fetch.timeout = Omitted
    /\ fetch.outcome = [ kind |-> "returned", response |-> [ status |-> 200 ] ]
    /\ fetch.clock = 5000 /\ fetch.timer = "cleared" /\ ~fetch.aborted


\* a call of loopThroughBlocks whose continuations are run whenever one is
\* ready and whose callbacks all settle
SpecLoopLive == SpecLoop /\ WF_vars(NextLoop)

CeilDiv(a, b) == (a + b - 1) \div b

\* C31: for every firstBlock < lastBlock and every batch size (none or 0
\* standing for 4999), a call whose callbacks settle ends; when it returns
\* it has called back exactly ceil((lastBlock - firstBlock) / batchSize)
\* times; when a callback rejects the call is rejected, returns nothing
\* and visits no further interval
C31_TerminatesAfterCeilCallbacks ==
    /\ <>(lpc \in { "done", "failed" })
    /\ [](/\ (lpc = "done" /\ lfirst < llast) =>
                Len(lcalls) = CeilDiv(llast - lfirst, BatchSizeOf(lbatch))
          /\ lpc = "failed" => lret = -1 /\ linflight = 0)
    /\ [][ lpc = "failed" => UNCHANGED loopVars ]_vars

\* a completed call over a range that is not a whole number of batches
C31_Witness ==
    /\ lpc = "done" /\ lfirst < llast
    /\ (llast - lfirst) % BatchSizeOf(lbatch) # 0
    /\ Len(lcalls) = 3


(***************************************************************************)
(* seedLogsOperatorShares over a range of more than 333 batches            *)
(***************************************************************************)
\* A run of seedLogsOperatorShares whose dbTransactions outgrows one chunk:
\* the run was called with toBlock = OpsLongLast and a fromBlock `done`
\* batches below baseBlock, and its first `done` batches completed without
\* a failure.  No log of the DelegationManager lies below baseBlock, so the
\* arrays and the tables are still empty; every batch appended its three
\* operations (part_002:89-110) and committed the cursor (line 113).
OpsLongLast == Heads[Len(Heads)]

OpsLongDone == { chunkSize \div 3 - 1, chunkSize \div 3, chunkSize \div 3 + 1 }

OpsLongFirst(done) == baseBlock - done * DefaultBatchSize

OpsLongBound(done, j) == OpsLongFirst(done) + j * DefaultBatchSize

\* dbTransactions after the batches lo..hi
RECURSIVE OpsLongTransactions(_, _, _)
OpsLongTransactions(done, lo, hi) ==
    IF lo = hi THEN OpsBatchTransactions(OpsLongBound(done, lo))
    ELSE LET mid == (lo + hi) \div 2
         IN OpsLongTransactions(done, lo, mid)
                \o OpsLongTransactions(done, mid + 1, hi)

\* the cursor values the last of the batches committed: batch `done`
\* commits the upserts of the batches 1..done; of the commits before it the
\* observer keeps nothing
OpsLongWrites(done) == [j \in 1..done |-> NumberOf(OpsLongBound(done, j))]

OpsLongInit ==
    /\ LoopIdle
    /\ CallsIdle
    /\ head = Len(Heads)
    /\ pods = PodsIdle
    /\ podsObs = ObsInit
    /\ \E done \in OpsLongDone :
        LET transactions == OpsLongTransactions(done, 1, done)
            bounds == [j \in 1..done |-> OpsLongBound(done, j)]
        IN /\ db = [ settings |-> [k \in SettingsKeys |->
                                     IF k = blockSyncKeyLogs
                                        THEN NumberOf(baseBlock) ELSE NoRow],
                     pod |-> << >>,
                     validatorRestake |-> { "v1" },
                     increased |-> << >>,
                     decreased |-> << >> ]
           /\ ops = [ OpsIdle EXCEPT !.pc = "loop", !.runs = 1,
                                     !.firstBlock = OpsLongFirst(done),
                                     !.lastBlock = OpsLongLast,
                                     !.currentBlock = baseBlock,
                                     !.nextBlock = baseBlock,
                                     !.dbTransactions = transactions,
                                     !.i = NumChunks(transactions) + 1 ]
           /\ opsObs = [ ObsAtStart(ObsInit, NoRow, OpsLongLast,
                                    OpsLongFirst(done), OpsLongFirst(done),
                                    OpsLongLast, Heads[Len(Heads)])
                           EXCEPT !.fetched = bounds,
                                  !.fetchedRows = [j \in 1..done |-> 0],
                                  !.batches = bounds,
                                  !.writes = OpsLongWrites(done) ]

NextOpsLong ==
    \/ OpsBatchFetch
    \/ OpsBatchGetLogsFail
    \/ OpsChunkCommit
    \/ OpsChunkFail
    \/ OpsReturn

SpecOpsLong == OpsLongInit /\ [][NextOpsLong]_vars

\* the table has the row (the natural key createMany skips duplicates on)
Committed(table, row) ==
    \E i \in 1..Len(table) : NaturalKey(table[i]) = NaturalKey(row)

\* the first n rows of the run's two arrays are in their tables
RowsCommitted(n) ==
    /\ \A i \in 1..n : Committed(db.increased, ops.logsOperatorSharesIncreased[i])
    /\ \A i \in 1..n : Committed(db.decreased, ops.logsOperatorSharesDecreased[i])

\* C32: in seedLogsOperatorShares, once the run has committed a cursor
\* value, the rows of every batch whose logs were read and whose upper bound
\* is at most the committed cursor are committed in both tables -- also
\* when dbTransactions is longer than one chunk of chunkSize operations and
\* the run stands between two chunks or a later chunk has failed.
C32_CursorNotAheadOfRecords ==
    (ops.pc \in { "loop", "write", "done" } /\ opsObs.writes # << >>) =>
        \A n \in 1..Len(opsObs.fetched) :
            NumberOf(opsObs.fetched[n]) <= db.settings[blockSyncKeyLogs]
                => RowsCommitted(opsObs.fetchedRows[n])

\* the first of two chunks is committed, the second is not: the earlier
\* batches' createMany operations, which insert what the arrays hold now,
\* have put the rows of the batch into both tables, and the cursor is the
\* one of the batch before
C32_Witness ==
    /\ ops.pc = "write"
    /\ NumChunks(ops.dbTransactions) = 2
    /\ ops.i = 2
    /\ db.increased # << >>
    /\ db.decreased # << >>
    /\ db.settings[blockSyncKeyLogs] < NumberOf(ops.nextBlock)
    /\ opsObs.fetched[Len(opsObs.fetched)] = ops.nextBlock

(***************************************************************************)
(* seedPods retried forever with default arguments                         *)
(***************************************************************************)
\* seedPods() (part_001:21-31) called again whenever the previous run has
\* ended; the runs are not counted, the caller never gives up
PodsRetry ==
    /\ pods.pc \in {"idle", "done", "failed"}
    /\ LET firstBlock == fetchLastSyncBlock(db, blockSyncKey)
           lastBlock == Heads[head]
       IN /\ pods' = [ PodsIdle EXCEPT !.pc = "loop",
                                       !.firstBlock = firstBlock,
                                       !.lastBlock = lastBlock,
                                       !.currentBlock = firstBlock,
                                       !.nextBlock = firstBlock ]
          /\ podsObs' = ObsAtStart(podsObs, db.settings[blockSyncKey], Undefined,
                                   Undefined, firstBlock, lastBlock, Heads[head])
    /\ UNCHANGED <<head, db, ops, opsObs, restVars>>

\* line 31: getBlockNumber rejects, seedPods rejects
PodsRetryRpcFail ==
    /\ pods.pc \in {"idle", "done", "failed"}
    /\ LET firstBlock == fetchLastSyncBlock(db, blockSyncKey)
       IN /\ pods' = [ PodsIdle EXCEPT !.pc = "failed",
                                       !.firstBlock = firstBlock,
                                       !.outcome = "rejected" ]
          /\ podsObs' = [ ObsAtStart(podsObs, db.settings[blockSyncKey], Undefined,
                                     Undefined, firstBlock, 0, Heads[head])
                            EXCEPT !.rpcFailed = TRUE, !.rerun = FALSE,
                                   !.synced.valid = FALSE ]
    /\ UNCHANGED <<head, db, ops, opsObs, restVars>>

NextPodsLive ==
    \/ PodsRetry
    \/ PodsRetryRpcFail
    \/ PodsBatch
    \/ PodsBatchRpcFail
    \/ PodsPrepare
    \/ PodsChunkCommit
    \/ PodsChunkFail
    \/ PodsSave
    \/ PodsSaveFail
    \/ ChainAdvance

\* what a write that succeeds (PodsChunkCommit, PodsSave) does to the run
PodsWritten ==
    /\ pods.pc = "write"
    /\ pods' = IF pods.i <= NumChunks(pods.dbTransactions)
                THEN [ pods EXCEPT !.i = pods.i + 1 ]
                ELSE [ pods EXCEPT !.pc = "done", !.outcome = "resolved" ]

\* the caller starts the next run, and a call that is awaited settles:
\* the run does not stay where it is forever
SpecPodsLive ==
    /\ Init
    /\ [][NextPodsLive]_vars
    /\ WF_pods(PodsRetry)
    /\ WF_pods(PodsBatch)
    /\ WF_pods(PodsPrepare)
    /\ WF_pods(PodsWritten)

\* the PodDeployed logs up to block h that carry the pod's address
PodsDeployedUpTo(h) ==
    { l \in PodLogs : l.blockNumber <= h /\ "eigenPod" \in DOMAIN l.args }

\* a run has completed, the cursor is the head the run read when it
\* started, and every pod deployed up to that head has its row
PodsCaughtUp ==
    /\ pods.pc = "done"
    /\ db.settings[blockSyncKey] = NumberOf(pods.lastBlock)
    /\ \A l \in PodsDeployedUpTo(pods.lastBlock) :
        \E i \in 1..Len(db.pod) : db.pod[i].address = DecodePod(l).address

\* C33 (a failed RPC call or write ends the run with pods.pc = "failed",
\* so finitely many failures leave pods.pc different from "failed" from
\* some point on): when only finitely many RPC calls and writes of seedPods fail and
\* seedPods() is called again and again with default arguments, a run
\* completes, again and again, with the pods cursor equal to the head the
\* run read at its start and every pod deployed up to that head in the Pod
\* table.
C33_EventuallyCaughtUp ==
    (<>[](pods.pc # "failed")) => []<>PodsCaughtUp

\* a completed run that started from a stored cursor and ended at the last
\* head, with all four pods in the table
C33_Witness ==
    /\ PodsCaughtUp
    /\ pods.lastBlock = Heads[Len(Heads)]
    /\ Len(db.pod) >= 4
    /\ podsObs.cursorBefore # NoRow
    /\ podsObs.fromCursor


(***************************************************************************)
(* The bootstrap write of seedPods (part_001:70-112)                       *)
(***************************************************************************)
\* the run stands in bulkUpdateDbTransactions with the bootstrap list
BootstrapWrite ==
    /\ pods.pc = "write"
    /\ PodsBootstrap(pods.firstBlock)
    /\ pods.i <= NumChunks(pods.dbTransactions)

\* the addresses getLogs can return for the blocks fromBlock..toBlock
PodAddressesIn(fromBlock, toBlock) ==
    { DecodePod(l).address :
        l \in { x \in PodLogs : /\ fromBlock <= x.blockNumber
                                /\ x.blockNumber <= toBlock
                                /\ x.blockNumber <= Heads[head] } }

\* table holds one row per address of podList, the first one decoded, and
\* nothing else
ExactlyThePods(table, podList) ==
    /\ \A i \in 1..Len(podList) :
        \E j \in 1..Len(table) : table[j].address = podList[i].address
    /\ \A j \in 1..Len(table) :
        /\ \E i \in 1..Len(podList) :
            /\ table[j] = podList[i]
            /\ \A k \in 1..(i - 1) : podList[k].address # podList[i].address
        /\ \A k \in 1..Len(table) :
            table[k].address = table[j].address => k = j

\* C34: the bootstrap run of seedPods writes its three operations in one
\* transaction.  A failed write leaves the Pod table, the ValidatorRestake
\* table and the cursor as they were; a successful one leaves
\* ValidatorRestake empty and the Pod table with exactly the pods the run
\* decoded, one row per address -- the pods of the blocks
\* firstBlock..lastBlock when those blocks existed when the run started --
\* and completes the bulk write without touching the cursor.
C34_BootstrapAtomic ==
    [][ BootstrapWrite =>
          /\ NumChunks(pods.dbTransactions) = 1
          /\ pods'.pc = "failed" => db' = db
          /\ (pods'.pc = "write" /\ pods'.i = pods.i + 1) =>
                /\ pods'.i > NumChunks(pods.dbTransactions)
                /\ db'.validatorRestake = {}
                /\ ExactlyThePods(db'.pod, pods.podList)
                /\ podsObs.existed =>
                      { db'.pod[j].address : j \in 1..Len(db'.pod) }
                          = PodAddressesIn(pods.firstBlock, pods.lastBlock)
                /\ db'.settings = db.settings
                /\ db'.increased = db.increased
                /\ db'.decreased = db.decreased ]_vars

\* the bootstrap transaction of a run over two batches is committed: the
\* pod of the shared boundary block was decoded twice and is stored once
C34_Witness ==
    /\ pods.pc = "write"
    /\ PodsBootstrap(pods.firstBlock)
    /\ pods.i = 2
    /\ db.validatorRestake = {}
    /\ Len(db.pod) >= 4
    /\ Len(pods.podList) > Len(db.pod)
    /\ db.settings[blockSyncKey] = podsObs.cursorBefore


(***************************************************************************)
(* The tiling of the window by the buckets                                 *)
(***************************************************************************)
\* the width of the buckets of the current walk
AggOffset ==
    IF agg.fn = TvlBeacon THEN getOffsetInMs(agg.frequency)
    ELSE TimeIntervalOf(agg.frequency)

\* the buckets emitted so far that hold the timestamp
BucketsOf(timestamp) ==
    { k \in 1..Len(agg.results) :
        /\ agg.results[k].timestamp <= timestamp
        /\ timestamp < agg.results[k].timestamp + AggOffset }

\* C35: in every walk the k-th point is at startAt + (k - 1) * offset, the
\* points ascend strictly and none is after endAt; every row loaded for the
\* window lies in exactly one bucket once its bucket is emitted (and in none
\* before), and a finished discrete series adds up to the sum of the delta
\* fields of the loaded rows, each counted once.
C35_BucketTiling ==
    agg.pc \in { "walk", "done" } =>
        /\ \A k \in 1..Len(agg.results) :
            /\ agg.results[k].timestamp = agg.startTimestamp + (k - 1) * AggOffset
            /\ agg.results[k].timestamp <= agg.endTimestamp
            /\ k > 1 => agg.results[k - 1].timestamp < agg.results[k].timestamp
        /\ agg.currentTimestamp = agg.startTimestamp + Len(agg.results) * AggOffset
        /\ \A i \in 1..Len(agg.hourlyData) :
            Cardinality(BucketsOf(agg.hourlyData[i].timestamp))
                = IF agg.hourlyData[i].timestamp < agg.currentTimestamp
                    THEN 1 ELSE 0
        /\ agg.pc = "done" =>
            /\ \A i \in 1..Len(agg.hourlyData) :
                Cardinality(BucketsOf(agg.hourlyData[i].timestamp)) = 1
            /\ agg.variant = "discrete" =>
                \A f \in AggFields(agg.fn) :
                    Sum([k \in 1..Len(agg.results) |-> agg.results[k][f]])
                        = Sum([i \in 1..Len(agg.hourlyData) |->
                                    agg.hourlyData[i][DeltaField(f)]])

\* a finished discrete series of three or more hourly buckets with rows in
\* two of them, one row at the instant where a bucket ends and the next
\* begins
C35_Witness ==
    /\ agg.pc = "done" /\ agg.variant = "discrete" /\ agg.frequency = "1h"
    /\ Len(agg.results) >= 3
    /\ Len(agg.hourlyData) >= 2
    /\ \E i \in 1..Len(agg.hourlyData) :
        agg.hourlyData[i].timestamp = agg.results[2].timestamp
    /\ \E i \in 1..Len(agg.hourlyData) :
        BucketsOf(agg.hourlyData[i].timestamp) # { 2 }


(***************************************************************************)
(* The two variants of doGetHistoricalCount                                *)
(***************************************************************************)
\* the value the discrete variant gives the k-th bucket of the current
\* call's window (part_000:1563-1571)
DiscreteValue(k) ==
    Len(CountIntervalData(cnt.modelData, cnt.results[k].timestamp,
            cnt.results[k].timestamp + TimeIntervalOf(cnt.frequency)))

\* C36: in doGetHistoricalCount the discrete series gives every bucket the
\* number of its rows, and the cumulative series over the same model,
\* window and frequency is count(createdAt < startAt) plus the running sum
\* of those numbers; it never decreases, and its last value is
\* count(createdAt <= endAt).
C36_CumulativeIsRunningSum ==
    cnt.pc \in { "walk", "done" } =>
        /\ cnt.variant = "discrete" =>
            \A k \in 1..Len(cnt.results) : cnt.results[k].value = DiscreteValue(k)
        /\ cnt.variant # "discrete" =>
            /\ \A k \in 1..Len(cnt.results) :
                /\ cnt.results[k].value =
                        Cardinality({ r \in metrics[cnt.modelName] :
                                        r.createdAt < cnt.startDate })
                            + Sum([j \in 1..k |-> DiscreteValue(j)])
                /\ k > 1 => cnt.results[k - 1].value <= cnt.results[k].value
            /\ (cnt.pc = "done" /\ cnt.results # << >>) =>
                cnt.results[Len(cnt.results)].value =
                    Cardinality({ r \in metrics[cnt.modelName] :
                                    r.createdAt <= cnt.endDate })

\* a finished cumulative series that starts above zero and grows twice
C36_Witness ==
    /\ cnt.pc = "done" /\ cnt.variant = "cumulative"
    /\ Len(cnt.results) >= 3
    /\ cnt.initialTally > 0
    /\ cnt.results[1].value > cnt.initialTally
    /\ cnt.results[Len(cnt.results)].value > cnt.results[1].value


(***************************************************************************)
(* The historical TVL routes (part_000:357-491, 1024-1283)                 *)
(***************************************************************************)
\* fetchCurrentEthPrices(): a price per strategy, the beacon strategy's
\* being 1
CurrentEthPrices ==
    [ defined |-> TRUE,
      price |-> [ a \in { << "0", "x", "a", "1" >>, << "0", "x", "a", "2" >>,
                          beaconAddress } |->
                    IF a = beaconAddress THEN 1
                    ELSE IF a = << "0", "x", "a", "1" >> THEN 2 ELSE 3 ] ]

\* the strategyAddress condition of the where clause, lines 1152-1154: two
\* spreads of the same key, the second overwrites the first
StrategyWhere(address, includeBeaconInTvl) ==
    IF ~includeBeaconInTvl THEN [ not |-> beaconAddress ]
    ELSE IF address # NoAddress THEN [ equals |-> ToLowerCase(address) ]
    ELSE [ any |-> TRUE ]

StrategyWhereMatches(row, where) ==
    IF "not" \in DOMAIN where THEN row.strategyAddress # where.not
    ELSE IF "equals" \in DOMAIN where THEN row.strategyAddress = where.equals
    ELSE TRUE

\* metricStrategyHourly.findMany({ where: { timestamp: { gte, lte },
\* strategyAddress }, orderBy: { timestamp: 'asc' } })
StrategyFindMany(table, gte, lte, where) ==
    OrderByTimestampAsc({ r \in table : /\ r.timestamp >= gte
                                       /\ r.timestamp <= lte
                                       /\ StrategyWhereMatches(r, where) })

\* the while loop of the three TVL series (lines 1106-1127, 1185-1206,
\* 1259-1280): results from currentTimestamp on, tvlEth being the value of
\* the bucket before
RECURSIVE HistoricalWalk(_, _, _, _, _, _, _, _)
HistoricalWalk(hourlyData, variant, tvlEth, isEthDenominated, ethPrices, currentTimestamp, endTimestamp, offset) ==
    IF ~WalkCondition(currentTimestamp, endTimestamp) THEN << >>
    ELSE LET nextTimestamp == currentTimestamp + offset
             value == calculateTvlForHistoricalRecord(
                          IntervalData(hourlyData, currentTimestamp, nextTimestamp),
                          variant, tvlEth, isEthDenominated, ethPrices)
         IN << [ timestamp |-> currentTimestamp, tvlEth |-> value ] >>
                \o HistoricalWalk(hourlyData, variant, value, isEthDenominated,
                                  ethPrices, nextTimestamp, endTimestamp, offset)

\* lines 1067-1130
doGetHistoricalTvlBeacon(startAt, endAt, frequency, variant) ==
    LET startTimestamp == resetTime(startAt)
        endTimestamp == resetTime(endAt)
        hourlyData == FindMany(metrics.metricEigenPodsHourly, startTimestamp,
                               endTimestamp, NoAddress)
        tvlEth == IF variant = "cumulative"
                    THEN getInitialTvlCumulative(startTimestamp, hourlyData, TRUE,
                            metrics.metricEigenPodsHourly, NoPrices)
                    ELSE 0
    IN HistoricalWalk(hourlyData, variant, tvlEth, TRUE, NoPrices,
                      startTimestamp, endTimestamp, getOffsetInMs(frequency))

\* lines 1141-1209
doGetHistoricalTvlRestakingUntruncated(startAt, endAt, frequency, variant, address, includeBeaconInTvl) ==
    LET hourlyData == StrategyFindMany(metrics.metricStrategyHourly, startAt, endAt,
                            StrategyWhere(address, includeBeaconInTvl))
        tvlEth == IF variant = "cumulative"
                    THEN getInitialTvlCumulative(startAt, hourlyData, FALSE,
                            metrics.metricStrategyHourly, CurrentEthPrices)
                    ELSE 0
    IN HistoricalWalk(hourlyData, variant, tvlEth, FALSE, CurrentEthPrices,
                      startAt, endAt, getOffsetInMs(frequency))

doGetHistoricalTvlRestaking(startAt, endAt, frequency, variant, address, includeBeaconInTvl) ==
    LET startTimestamp == resetTime(startAt)
        endTimestamp == resetTime(endAt)
        hourlyData == StrategyFindMany(metrics.metricStrategyHourly,
                            startTimestamp, endTimestamp,
                            StrategyWhere(address, includeBeaconInTvl))
        ethPrices == CurrentEthPrices
        tvlEth == IF variant = "cumulative"
                    THEN getInitialTvlCumulative(startTimestamp, hourlyData, FALSE,
                            metrics.metricStrategyHourly, ethPrices)
                    ELSE 0
    IN HistoricalWalk(hourlyData, variant, tvlEth, FALSE, ethPrices,
                      startTimestamp, endTimestamp, getOffsetInMs(frequency))

\* the delegates of the prisma client the TVL series name (the keys of
\* MetricModelMap, lines 84-89); prisma[modelName] is undefined for any
\* other name
MetricModels ==
    { "metricEigenPodsHourly", "metricStrategyHourly", "metricDepositHourly",
      "metricWithdrawalHourly" }

\* the names the two routes pass (lines 453, 481)
WithdrawalModelName == "withdrawalMetricHourly"
DepositModelName == "depositMetricHourly"

\* lines 1220-1283: the rows are read from metricDepositHourly whatever
\* modelName is; getInitialTvlCumulative calls prisma[modelName].findFirst
\* when the first row is not at the start of the window, a TypeError when
\* there is no such delegate
doGetHistoricalTvlWithdrawalDeposit(modelName, startAt, endAt, frequency, variant) ==
    LET startTimestamp == resetTime(startAt)
        endTimestamp == resetTime(endAt)
        hourlyData == FindMany(metrics.metricDepositHourly, startTimestamp,
                               endTimestamp, NoAddress)
        atStart == Len(hourlyData) > 0 /\ hourlyData[1].timestamp = startTimestamp
    IN IF variant = "cumulative" /\ ~atStart /\ modelName \notin MetricModels
         THEN [ threw |-> TRUE, error |-> "TypeError" ]
         ELSE [ threw |-> FALSE,
                results |->
                    HistoricalWalk(hourlyData, variant,
                        IF variant = "cumulative"
                            THEN getInitialTvlCumulative(startTimestamp, hourlyData,
                                    TRUE,
                                    IF modelName \in MetricModels
                                        THEN metrics[modelName] ELSE {},
                                    NoPrices)
                            ELSE 0,
                        TRUE, NoPrices, startTimestamp, endTimestamp,
                        getOffsetInMs(frequency)) ]

HistInit ==
    /\ LoopIdle
    /\ head = 1 /\ db = BulkDb
    /\ pods = PodsIdle /\ podsObs = ObsInit /\ ops = OpsIdle /\ opsObs = ObsInit
    /\ bulk = BulkIdle /\ sync = SyncIdle
    /\ \E rows \in SUBSET MetricCandidates : metrics = MetricTables(rows)
    /\ agg = AggIdle /\ ExtraIdle

\* getHistoricalTvlRestaking, lines 412-436: the route of one strategy
HistRestaking(address, startAt, endAt, frequency, variant) ==
    /\ total.pc = "idle"
    /\ total' = [ pc |-> "done", route |-> "restaking", address |-> address,
                  startAt |-> startAt, endAt |-> endAt,
                  frequency |-> frequency, variant |-> variant,
                  results |-> doGetHistoricalTvlRestaking(startAt, endAt,
                                  frequency, variant, address, TRUE) ]
    /\ UNCHANGED totalRest

\* getHistoricalTvlWithdrawal and getHistoricalTvlDeposit, lines 444-491
HistWithdrawalDeposit(modelName, startAt, endAt, frequency, variant) ==
    /\ total.pc = "idle"
    /\ LET data == doGetHistoricalTvlWithdrawalDeposit(modelName, startAt, endAt,
                                                       frequency, variant)
       IN total' = [ pc |-> IF data.threw THEN "failed" ELSE "done",
                     route |-> modelName,
                     startAt |-> startAt, endAt |-> endAt,
                     frequency |-> frequency, variant |-> variant,
                     results |-> IF data.threw THEN << >> ELSE data.results ]
    /\ UNCHANGED totalRest

\* doGetHistoricalTvlTotal, lines 1031-1040: the two series are computed
HistTotal(startAt, endAt, frequency, variant) ==
    /\ total.pc = "idle"
    /\ total' = [ pc |-> "map", route |-> "total",
                  startAt |-> startAt, endAt |-> endAt,
                  frequency |-> frequency, variant |-> variant,
                  beaconTvl |-> doGetHistoricalTvlBeacon(startAt, endAt,
                                    frequency, variant),
                  restakingTvl |-> doGetHistoricalTvlRestaking(startAt, endAt,
                                    frequency, variant, NoAddress, FALSE),
                  index |-> 0, results |-> << >> ]
    /\ UNCHANGED totalRest

\* lines 1043-1053: the callback of beaconTvl.map for one entry, which
\* throws on a mismatch and returns the sum otherwise
HistCombine ==
    /\ total.pc = "map" /\ total.index < Len(total.beaconTvl)
    /\ total' =
        IF EntryMismatch(total.beaconTvl, total.restakingTvl, total.index)
            THEN [ total EXCEPT !.pc = "failed" ]
            ELSE [ total EXCEPT
                    !.index = @ + 1,
                    !.results = Append(@,
                        [ timestamp |-> total.beaconTvl[total.index + 1].timestamp,
                          tvlEth |-> total.beaconTvl[total.index + 1].tvlEth
                                     + total.restakingTvl[total.index + 1].tvlEth ]) ]
    /\ UNCHANGED totalRest

NextHist ==
    \/ \E address \in AggAddresses, startAt \in AggStartAts, span \in AggSpans,
          frequency \in AggFrequencies, variant \in AggVariants :
            HistRestaking(address, startAt, startAt + span, frequency, variant)
    \/ \E modelName \in { WithdrawalModelName, DepositModelName },
          startAt \in AggStartAts, span \in AggSpans,
          frequency \in AggFrequencies, variant \in AggVariants :
            HistWithdrawalDeposit(modelName, startAt, startAt + span, frequency,
                                  variant)
    \/ \E startAt \in AggStartAts, span \in AggSpans,
          frequency \in AggFrequencies, variant \in AggVariants :
            HistTotal(startAt, startAt + span, frequency, variant)
    \/ HistCombine
    \/ TotalReturn

SpecHist == HistInit /\ [][NextHist]_vars


\* the snapshots of the strategy the restaking route was called for
OwnStrategyRows ==
    { r \in metrics.metricStrategyHourly :
        r.strategyAddress = ToLowerCase(total.address) }

\* the value of the strategy when the window starts: its snapshot at the
\* start, else its latest snapshot before the start, at its own price
OwnStrategySeed ==
    LET prior == { r \in OwnStrategyRows : r.timestamp <= resetTime(total.startAt) }
    IN IF prior = {} THEN 0
       ELSE Latest(prior).tvl
                * PriceOf(CurrentEthPrices, ToLowerCase(total.address))

\* C37 as stated: the cumulative restaking series of one strategy is the
\* walk over the snapshots of that strategy, seeded with that strategy's
\* value at the start of the window, each valued at the strategy's own price
C37_OwnStrategyOnly ==
    (total.pc = "done" /\ total.route = "restaking"
        /\ total.variant = "cumulative") =>
        total.results =
            HistoricalWalk(
                OrderByTimestampAsc({ r \in OwnStrategyRows :
                    /\ r.timestamp >= resetTime(total.startAt)
                    /\ r.timestamp <= resetTime(total.endAt) }),
                "cumulative", OwnStrategySeed, FALSE, CurrentEthPrices,
                resetTime(total.startAt), resetTime(total.endAt),
                getOffsetInMs(total.frequency))

\* the snapshot table of a route of the withdrawals / deposits pair
OwnSnapshots ==
    IF total.route = WithdrawalModelName THEN metrics.metricWithdrawalHourly
    ELSE metrics.metricDepositHourly

\* C38 as stated: a series the withdrawals route returns is computed, rows
\* and cumulative seed, from the withdrawal snapshots, and a series the
\* deposits route returns from the deposit snapshots
C38_OwnSnapshotSource ==
    (total.pc = "done"
        /\ total.route \in { WithdrawalModelName, DepositModelName }) =>
        LET startTimestamp == resetTime(total.startAt)
            endTimestamp == resetTime(total.endAt)
            hourlyData == FindMany(OwnSnapshots, startTimestamp, endTimestamp,
                                   NoAddress)
            seed == IF total.variant = "cumulative"
                      THEN getInitialTvlCumulative(startTimestamp, hourlyData,
                                TRUE, OwnSnapshots, NoPrices)
                      ELSE 0
        IN total.results =
                HistoricalWalk(hourlyData, total.variant, seed, TRUE, NoPrices,
                               startTimestamp, endTimestamp,
                               getOffsetInMs(total.frequency))

\* C39: in doGetHistoricalTvlTotal the beacon-chain series and the
\* restaking series have the same length and the same timestamp at every
\* index whatever the snapshot tables hold; the mismatch error is never
\* thrown, every composed point has the timestamp of the two entries and
\* the sum of their values, and the result has a point per bucket.
C39_TotalAligned ==
    (total.pc # "idle" /\ total.route = "total") =>
        /\ total.pc # "failed"
        /\ Aligned(total.beaconTvl, total.restakingTvl)
        /\ \A k \in 1..Len(total.results) :
            /\ total.results[k].timestamp = total.beaconTvl[k].timestamp
            /\ total.results[k].timestamp = total.restakingTvl[k].timestamp
            /\ total.results[k].tvlEth =
                    total.beaconTvl[k].tvlEth + total.restakingTvl[k].tvlEth
        /\ total.pc = "done" => Len(total.results) = Len(total.beaconTvl)

\* a composed series of three or more buckets whose two parts carry
\* different, non-zero values in a bucket
C39_Witness ==
    /\ total.pc = "done" /\ total.route = "total"
    /\ Len(total.results) >= 3
    /\ \E k \in 1..Len(total.results) :
        /\ total.beaconTvl[k].tvlEth > 0
        /\ total.restakingTvl[k].tvlEth > total.beaconTvl[k].tvlEth
    /\ \E k \in 1..Len(total.results) :
        total.beaconTvl[k].tvlEth # total.beaconTvl[1].tvlEth


\* ---------------------------------------------------------------------
\* The count metrics: doGetTotalAvsCount, doGetTotalOperatorCount and
\* doGetTotalStakerCount, each call explored on its own over the entity
\* tables.
\* ---------------------------------------------------------------------

TotalAvsCount == "doGetTotalAvsCount"
TotalOperatorCount == "doGetTotalOperatorCount"
TotalStakerCount == "doGetTotalStakerCount"
TotalCountFns == { TotalAvsCount, TotalOperatorCount, TotalStakerCount }

\* the operatorAddress of a staker that is not delegated
NoOperator == << >>

\* the ids of the entities that may fail the where clause of their count:
\* an AVS that getAvsFilterQuery(true) leaves out, a staker whose
\* operatorAddress is null
HiddenCandidates == { 100, 500 }

\* the entity tables with the columns the where clauses read
TotalsTables(rows, hidden) ==
    LET tables == MetricTables(rows)
    IN [ tables EXCEPT
            !.avs = { [ id |-> r.id, createdAt |-> r.createdAt,
                        listed |-> r.id \notin hidden ] : r \in tables.avs },
            !.staker = { [ id |-> r.id, createdAt |-> r.createdAt,
                           operatorAddress |->
                                IF r.id \in hidden THEN NoOperator
                                ELSE << "0", "x", "0", "1" >> ] :
                         r \in tables.staker } ]

\* a JavaScript number of the percent: a finite one kept in thousandths, or
\* Infinity
Thousandths(n) == [ kind |-> "number", thousandths |-> n ]
Infinity == [ kind |-> "Infinity", thousandths |-> 0 ]

\* Math.round((changeValue / prior) * 1000) / 1000 in thousandths, for
\* changeValue >= 0: a positive number over 0 is Infinity, and
\* Math.round(Infinity) / 1000 is Infinity
RoundedRatio(changeValue, prior) ==
    IF prior = 0 THEN Infinity
    ELSE Thousandths((2000 * changeValue + prior) \div (2 * prior))

\* changeValue !== 0
\*     ? Math.round((changeValue / (totalNow - changeValue)) * 1000) / 1000 : 0
CountPercent(changeValue, totalNow) ==
    IF changeValue # 0
        THEN RoundedRatio(changeValue, totalNow - changeValue)
        ELSE Thousandths(0)

\* the three counts of a function and what it returns from them; counted
\* are the rows that pass the where clause of the function, at the time now
TotalCountResult(counted, now) ==
    LET timestamp24h == now - 24 * Hour
        timestamp7d == now - 7 * Day
        totalNow == Cardinality(counted)
        change24hValue ==
            Cardinality({ r \in counted : r.createdAt >= timestamp24h })
        change7dValue ==
            Cardinality({ r \in counted : r.createdAt >= timestamp7d })
    IN [ total |-> totalNow,
         change24h |-> [ value |-> change24hValue,
                         percent |-> CountPercent(change24hValue, totalNow) ],
         change7d |-> [ value |-> change7dValue,
                        percent |-> CountPercent(change7dValue, totalNow) ] ]

doGetTotalAvsCount(now) ==
    TotalCountResult({ r \in metrics.avs : r.listed }, now)

doGetTotalOperatorCount(now) == TotalCountResult(metrics.operator, now)

doGetTotalStakerCount(now) ==
    TotalCountResult({ r \in metrics.staker : r.operatorAddress # NoOperator },
                     now)

TotalsInit ==
    /\ LoopIdle
    /\ head = 1 /\ db = BulkDb
    /\ pods = PodsIdle /\ podsObs = ObsInit /\ ops = OpsIdle /\ opsObs = ObsInit
    /\ bulk = BulkIdle /\ sync = SyncIdle /\ agg = AggIdle
    /\ cnt = CountIdle /\ total = TotalIdle /\ fetch = FetchIdle
    /\ \E rows \in SUBSET MetricCandidates, hidden \in SUBSET HiddenCandidates :
            metrics = TotalsTables(rows, hidden)
    /\ point = PointIdle

\* a call of doGetTotalAvsCount at the time now
TotalsAvs(now) ==
    /\ point.pc = "idle"
    /\ point' = [ pc |-> "done", fn |-> TotalAvsCount, now |-> now,
                  result |-> doGetTotalAvsCount(now) ]
    /\ UNCHANGED pointRest

\* a call of doGetTotalOperatorCount at the time now
TotalsOperator(now) ==
    /\ point.pc = "idle"
    /\ point' = [ pc |-> "done", fn |-> TotalOperatorCount, now |-> now,
                  result |-> doGetTotalOperatorCount(now) ]
    /\ UNCHANGED pointRest

\* a call of doGetTotalStakerCount at the time now
TotalsStaker(now) ==
    /\ point.pc = "idle"
    /\ point' = [ pc |-> "done", fn |-> TotalStakerCount, now |-> now,
                  result |-> doGetTotalStakerCount(now) ]
    /\ UNCHANGED pointRest

NextTotals ==
    \/ \E now \in PointNows : TotalsAvs(now)
    \/ \E now \in PointNows : TotalsOperator(now)
    \/ \E now \in PointNows : TotalsStaker(now)

SpecTotals == TotalsInit /\ [][NextTotals]_vars

\* a returned change whose prior count, total minus the entities created
\* inside the period, is 0
PriorIsZero(change) == point.result.total - change.value = 0

\* C40 as stated: for the three count metrics, whenever the prior count
\* (total minus the entities created inside the period) is 0, the reported
\* 24h or 7d percent is 0, so that no division by zero is propagated.  The
\* code tests the change, not the prior count: when every counted entity
\* was created inside the period the percent is Infinity.
C40_ZeroPriorGivesZeroPercent ==
    (point.pc = "done" /\ point.fn \in TotalCountFns) =>
        /\ PriorIsZero(point.result.change24h) =>
                point.result.change24h.percent = Thousandths(0)
        /\ PriorIsZero(point.result.change7d) =>
                point.result.change7d.percent = Thousandths(0)

=============================================================================
